---- MODULE Spec2Model ----
(***************************************************************************)
(* Model of the dual-source capture session of AudioRecorder/recorder.py:  *)
(* the AudioRecorder object (start / stop / _record_device), its capture   *)
(* threads, the shared buffers and the lock, and the RecorderApp handlers  *)
(* that drive it.                                                          *)
(*                                                                         *)
(* Samples are exact rationals <<numerator, denominator>> in lowest terms, *)
(* so the float arithmetic of stop() is modelled without rounding.         *)
(***************************************************************************)
EXTENDS Integers, Sequences, FiniteSets, Bags, TLC

(* ------------------------------ bounds --------------------------------- *)

\* Frames per block.  recorder.py uses 1024; every operation of the model is
\* parametric in it, the model uses a short block.
CHUNK_SIZE == 2

\* Largest number of chunks the two buffers of one recording receive
\* together.
MaxChunks == 3

\* Largest number of capture threads that are alive but no longer referenced
\* by the session (their Thread object was replaced by a later start()).
MaxDetached == 1

\* Largest number of RecordingOverlay windows that exist at once.
MaxOverlays == 2

\* The most input channels a device reports.
MaxChannels == 4

\* Device amplitudes are multiples of 1/FullScale, between -1 and 1.
FullScale == 2

(* --------------------------- rational numbers -------------------------- *)

Abs(n) == IF n < 0 THEN -n ELSE n

Min(a, b) == IF a <= b THEN a ELSE b

RECURSIVE Gcd(_, _)
Gcd(a, b) == IF b = 0 THEN a ELSE Gcd(b, a % b)

\* Lowest terms, positive denominator.  A zero denominator (the value numpy
\* gives for x / 0: nan or +-inf) is kept as <<sign, 0>>.
Rat(n, d) ==
    IF d = 0 THEN <<(IF n > 0 THEN 1 ELSE IF n < 0 THEN -1 ELSE 0), 0>>
    ELSE LET g == Gcd(Abs(n), Abs(d))
             s == IF d < 0 THEN -1 ELSE 1
         IN  <<(s * n) \div g, (s * d) \div g>>

Zero == <<0, 1>>

IsFinite(a) == a[2] > 0

RatAdd(a, b) == Rat(a[1] * b[2] + b[1] * a[2], a[2] * b[2])

RatMul(a, b) == Rat(a[1] * b[1], a[2] * b[2])

RatDiv(a, b) == Rat(a[1] * b[2], a[2] * b[1])

RatAbs(a) == <<Abs(a[1]), a[2]>>

RatLeq(a, b) == a[1] * b[2] <= b[1] * a[2]

RatLess(a, b) == a[1] * b[2] < b[1] * a[2]

\* np.abs(x).max() of a non-empty sequence of finite rationals.
PeakAbs(x) ==
    CHOOSE p \in {RatAbs(x[i]) : i \in 1..Len(x)} :
        \A i \in 1..Len(x) : RatLeq(RatAbs(x[i]), p)

(* ------------------------------ devices -------------------------------- *)

None == 0

\* The host's input devices: a mono microphone and a stereo loopback device.
MicDevice == 1

LoopbackDevice == 2

max_input_channels(device_id) == IF device_id = LoopbackDevice THEN 2 ELSE 1

\* A block of CHUNK_SIZE frames read from a device at level v: the first
\* frame at v / FullScale, the others at half of that, on every channel.
\* The microphone delivers silence or a tone, the loopback device silence or
\* the inverted tone: mixes of the two are silent, cancel exactly, or are loud
\* with quieter samples beside the peak.
Levels(device_id) ==
    IF device_id = LoopbackDevice THEN {-FullScale, 0} ELSE {0, FullScale}

Frame(v, i) == IF i = 1 THEN Rat(v, FullScale) ELSE Rat(v, 2 * FullScale)

Block(v, channels) ==
    [i \in 1..CHUNK_SIZE |-> [c \in 1..channels |-> Frame(v, i)]]

\* data.flatten() of a block of frames: the samples of the first frame, then
\* those of the second, and so on.
Flatten(data, channels) ==
    [k \in 1..(Len(data) * channels) |->
        data[((k - 1) \div channels) + 1][((k - 1) % channels) + 1]]

\* Variant: the block is flattened whatever its number of channels.
MonoFlattened(data, channels) == Flatten(data, channels)

\* _record_device: "mono = data.mean(axis=1)" for two channels, else
\* "data.flatten()".
Mono(data, channels) ==
    IF channels = 2
    THEN [i \in 1..Len(data) |->
              RatDiv(RatAdd(data[i][1], data[i][2]), <<2, 1>>)]
    ELSE Flatten(data, channels)

\* "channels = min(device_info['max_input_channels'], 2)"
OpenedChannels(max_channels) == Min(max_channels, 2)

\* The mono chunks a worker makes of the blocks it reads from a device.
MonoBlocks ==
    [device_id \in {None, MicDevice, LoopbackDevice} |->
        LET channels == OpenedChannels(max_input_channels(device_id))
        IN  {Mono(Block(v, channels), channels) : v \in Levels(device_id)}]

(* ------------------------------- state --------------------------------- *)

VARIABLES
    is_recording,     \* AudioRecorder.is_recording
    mic_data,         \* AudioRecorder.mic_data: the list of chunks
    desktop_data,     \* AudioRecorder.desktop_data
    mic_thread,       \* AudioRecorder.mic_thread: the Thread it refers to
    desktop_thread,   \* AudioRecorder.desktop_thread
    detached,         \* bag of the live threads no attribute refers to
    lock,             \* AudioRecorder.lock is held
    pc,               \* position of the main thread
    started,          \* the latest start(): its mode argument and the
                      \* sources it spawned a thread for
    mic_audio,        \* stop(): local mic_audio
    desktop_audio,    \* stop(): local desktop_audio
    audio,            \* the value stop() returned to its caller
    app_is_recording, \* RecorderApp.is_recording
    overlay,          \* RecorderApp.overlay is a RecordingOverlay
    overlays,         \* the RecordingOverlay windows that exist
    shown,            \* the message box or status the user saw last
    written,          \* the latest stop_recording wrote a file
    mic_level,        \* RecordingOverlay.mic_level
    desk_level,       \* RecordingOverlay.desk_level
    seen,             \* the lengths of the two buffers at the latest poll of
                      \* this overlay
    host,             \* the device list sd.query_devices() returns
    app_mics,         \* RecorderApp._mics
    app_loopbacks,    \* RecorderApp._loopbacks
    loaded,           \* _load_devices has filled the two lists
    sd,               \* the sounddevice library: "none" when its import
                      \* failed, "raises" when query_devices() fails,
                      \* "returns" when it returns the host's list
    default_mic,      \* the latest result of get_default_mic()
    default_loopback, \* the latest result of get_default_loopback()
    resolved,         \* the two defaults have been asked for
    wav_file,         \* the 16-bit samples of the file save() wrote
    save_result,      \* what the latest call of save() returned: "none"
                      \* before any call, "raised" when wav.write raised
    companies,        \* the rows of the Appwrite companies table
    coldcalls,        \* the rows of the coldcalls table
    transcripts,      \* the rows of the transcripts table
    analysis,         \* the argument of the latest save_call_analysis
    call_id,          \* what the latest save_call_analysis returned
    calls,            \* how many times save_call_analysis has been called
    dialogs,          \* the modal dialogs that are open, the latest last,
                      \* each with the handler that waits for it
    hotkeys,          \* the toggle_recording callbacks _on_hotkey has
                      \* queued with root.after
    closing,          \* _on_close has been called
    stamps,           \* transcribe_calls: what extract_recording_timestamp
                      \* returns for each audio file of the input directory
    output_dir,       \* the JSON files of the output directory: file stem
                      \* and the source_file entry of its contents
    main_pc,          \* position of main(): "idle" between two runs, "loop"
                      \* at the head of its for loop, "call" inside
                      \* transcribe_and_analyze
    resume,           \* args.resume of the run
    formats_json,     \* "json" is in args.formats of the run
    processed_files,  \* main(): processed_files
    index,            \* main(): the place in audio_files of the file the
                      \* loop is at
    run_count,        \* how many runs have been started
    processed_ok,     \* the audio files some run with JSON output has
                      \* processed successfully
    skipped,          \* the audio files the run has skipped
    ta_pc,            \* position in transcribe_and_analyze
    attempt,          \* transcribe_and_analyze: attempt
    requests,         \* generate_content calls of this call of
                      \* transcribe_and_analyze
    error_str,        \* what the except clause saw in str(e)
    response,         \* transcribe_and_analyze: response is bound
    parsed,           \* parse_json_response has been called
    returned_analysis \* what transcribe_and_analyze returned

\* The RecordingOverlay windows and the level bars of the one that
\* RecorderApp.overlay names.
monitor == <<mic_level, desk_level, seen, overlays>>

\* The host's devices and the lists RecorderApp keeps of them.
catalog ==
    <<host, app_mics, app_loopbacks, loaded, sd, default_mic, default_loopback,
      resolved>>

\* The encoder's output.
encoder == <<wav_file, save_result>>

\* The Appwrite database and the latest call of AppwriteService.
database == <<companies, coldcalls, transcripts, analysis, call_id, calls>>

\* The Tk event loop of RecorderApp.
dispatch == <<dialogs, hotkeys, closing>>

\* A run of transcribe_calls.py and its call of transcribe_and_analyze.
batch ==
    <<stamps, output_dir, main_pc, resume, formats_json, processed_files,
      index, run_count, processed_ok, skipped, ta_pc, attempt, requests,
      error_str, response, parsed, returned_analysis>>

appvars ==
    <<app_is_recording, overlay, shown, written, monitor, catalog, encoder,
      database, dispatch, batch>>

vars == <<is_recording, mic_data, desktop_data, mic_thread, desktop_thread,
          detached, lock, pc, started, mic_audio, desktop_audio, audio, appvars>>

\* A capture thread: its position in _record_device, the session attribute
\* that is bound to the same list object as its data_list argument ("orphan"
\* when start() has rebound both attributes to new lists since), and its
\* device.
LivePcs == {"open", "loop", "read", "append"}

NoThread == [pc |-> "none", data_list |-> "orphan", device |-> None]

\* A Thread object whose run has ended.
Ended == [pc |-> "done", data_list |-> "orphan", device |-> None]

NewThread(device_id, list_name) ==
    [pc |-> "open", data_list |-> list_name, device |-> device_id]

IsAlive(t) == t.pc \in LivePcs

\* Optional values: None is <<>>, a value x is <<x>>.
Nothing == <<>>

Some(x) == <<x>>

\* An analysis none of whose fields is set: CallAnalysis(transcript="").
NoAnalysis ==
    [transcript |-> Some(""), caller_name |-> Nothing,
     company_name |-> Nothing, phone_number |-> Nothing]

\* No run of transcribe_calls.py has been started: the output directory is
\* empty.
NoRun ==
    /\ output_dir = {}
    /\ main_pc = "idle"
    /\ resume = FALSE
    /\ formats_json = FALSE
    /\ processed_files = {}
    /\ index = 0
    /\ run_count = 0
    /\ processed_ok = {}
    /\ skipped = {}

\* No call of transcribe_and_analyze is in progress.
NoCall ==
    /\ ta_pc = "none"
    /\ attempt = 0
    /\ requests = 0
    /\ error_str = [has_429 |-> FALSE, has_RESOURCE_EXHAUSTED |-> FALSE]
    /\ response = FALSE
    /\ parsed = FALSE
    /\ returned_analysis = Nothing

NoBatch == stamps = <<>> /\ NoRun /\ NoCall

Init ==
    /\ is_recording = FALSE
    /\ mic_data = <<>>
    /\ desktop_data = <<>>
    /\ mic_thread = NoThread
    /\ desktop_thread = NoThread
    /\ detached = EmptyBag
    /\ lock = FALSE
    /\ pc = "idle"
    /\ started = [mode |-> "none", sources |-> {}]
    /\ mic_audio = Nothing
    /\ desktop_audio = Nothing
    /\ audio = <<>>
    /\ app_is_recording = FALSE
    /\ overlay = FALSE
    /\ overlays = 0
    /\ shown = "Ready"
    /\ written = FALSE
    /\ mic_level = Zero
    /\ desk_level = Zero
    /\ seen = <<0, 0>>
    /\ host = <<>>
    /\ app_mics = <<>>
    /\ app_loopbacks = <<>>
    /\ loaded = TRUE
    /\ sd = "returns"
    /\ default_mic = Nothing
    /\ default_loopback = Nothing
    /\ resolved = FALSE
    /\ wav_file = Nothing
    /\ save_result = "none"
    /\ companies = <<>>
    /\ coldcalls = <<>>
    /\ transcripts = <<>>
    /\ analysis = NoAnalysis
    /\ call_id = Nothing
    /\ calls = 0
    /\ dialogs = <<>>
    /\ hotkeys = 0
    /\ closing = FALSE
    /\ NoBatch


(* --------------------------- capture threads --------------------------- *)

\* Every thread of the program that runs _record_device, with the place that
\* holds it: <<"mic_thread", t>>, <<"desktop_thread", t>> or <<"detached", t>>.
Threads ==
    {<<"mic_thread", mic_thread>>, <<"desktop_thread", desktop_thread>>}
        \cup {<<"detached", t>> : t \in BagToSet(detached)}

\* Thread th moves on to state t2; a detached thread that ends is gone.
SetThread(th, t2) ==
    /\ mic_thread' = IF th[1] = "mic_thread" THEN t2 ELSE mic_thread
    /\ desktop_thread' = IF th[1] = "desktop_thread" THEN t2 ELSE desktop_thread
    /\ detached' =
           IF th[1] = "detached"
           THEN (detached (-) SetToBag({th[2]}))
                    (+) (IF IsAlive(t2) THEN SetToBag({t2}) ELSE EmptyBag)
           ELSE detached

Goto(th, position) ==
    SetThread(th, IF position = "done" THEN Ended
                  ELSE [th[2] EXCEPT !.pc = position])

\* The model lets a thread whose list a session attribute still names read
\* a block only while the buffers hold fewer than MaxChunks chunks.
Room(t) ==
    t.data_list # "orphan" => Len(mic_data) + Len(desktop_data) < MaxChunks

\* sd.query_devices(device_id) and sd.InputStream(...) succeed.
OpenStream ==
    \E th \in Threads :
        /\ th[2].pc = "open"
        /\ Goto(th, "loop")
        /\ UNCHANGED <<is_recording, mic_data, desktop_data, lock, pc, started,
                       mic_audio, desktop_audio, audio,
                   appvars>>

\* They raise: the except clause prints and the thread ends.
OpenError ==
    \E th \in Threads :
        /\ th[2].pc = "open"
        /\ Goto(th, "done")
        /\ UNCHANGED <<is_recording, mic_data, desktop_data, lock, pc, started,
                       mic_audio, desktop_audio, audio,
                   appvars>>

\* Variant: the loop does not look at the flag.
LoopForever ==
    \E th \in Threads :
        /\ th[2].pc = "loop"
        /\ Goto(th, "read")
        /\ UNCHANGED <<is_recording, mic_data, desktop_data, lock, pc, started,
                       mic_audio, desktop_audio, audio,
                   appvars>>

\* "while self.is_recording:"
LoopCheck ==
    \E th \in Threads :
        /\ th[2].pc = "loop"
        /\ Goto(th, IF is_recording THEN "read" ELSE "done")
        /\ UNCHANGED <<is_recording, mic_data, desktop_data, lock, pc, started,
                       mic_audio, desktop_audio, audio,
                   appvars>>

\* Variant: the worker enters the with block without waiting for the lock.
ReadBlockUnguarded ==
    \E th \in Threads :
        /\ th[2].pc = "read"
        /\ Room(th[2])
        /\ lock' = TRUE
        /\ Goto(th, "append")
        /\ UNCHANGED <<is_recording, mic_data, desktop_data, pc, started,
                       mic_audio, desktop_audio, audio,
                   appvars>>

\* stream.read(CHUNK_SIZE) returns a block, the thread converts it (a step
\* on its own data) and enters "with self.lock:".
ReadBlock ==
    \E th \in Threads :
        /\ th[2].pc = "read"
        /\ Room(th[2])
        /\ ~lock
        /\ lock' = TRUE
        /\ Goto(th, "append")
        /\ UNCHANGED <<is_recording, mic_data, desktop_data, pc, started,
                       mic_audio, desktop_audio, audio,
                   appvars>>

\* Variant: a failed read ends the recording.
ReadErrorStopsSession ==
    \E th \in Threads :
        /\ th[2].pc = "read"
        /\ Goto(th, "done")
        /\ is_recording' = FALSE
        /\ UNCHANGED <<mic_data, desktop_data, lock, pc, started,
                       mic_audio, desktop_audio, audio,
                   appvars>>

\* stream.read raises (device gone): the thread ends.
ReadError ==
    \E th \in Threads :
        /\ th[2].pc = "read"
        /\ Goto(th, "done")
        /\ UNCHANGED <<is_recording, mic_data, desktop_data, lock, pc, started,
                       mic_audio, desktop_audio, audio,
                   appvars>>

\* Variant: the new chunk is put in front of the list.
AppendToFront(list, name, t, mono) ==
    IF t.data_list = name THEN <<mono>> \o list ELSE list

\* The list object data_list after "data_list.append(mono.copy())": a list
\* no session attribute names any more is not observable and is not kept.
AppendTo(list, name, t, mono) ==
    IF t.data_list = name THEN Append(list, mono) ELSE list

\* "data_list.append(mono.copy())" and the end of the with block.  The
\* contents of the block read at ReadBlock are drawn here, where they first
\* become visible to another thread.
AppendChunk ==
    \E th \in Threads : \E mono \in MonoBlocks[th[2].device] :
        /\ th[2].pc = "append"
        /\ mic_data' = AppendTo(mic_data, "mic", th[2], mono)
        /\ desktop_data' = AppendTo(desktop_data, "desktop", th[2], mono)
        /\ lock' = FALSE
        /\ Goto(th, "loop")
        /\ UNCHANGED <<is_recording, pc, started, mic_audio, desktop_audio,
                       audio,
                   appvars>>

(* ------------------------- AudioRecorder.start ------------------------- *)

Modes == {"mic", "desktop", "both"}

\* Variant: start() empties the lists in place, so a thread started before
\* still appends to the list the attribute names.
ReboundInPlace(t) == t

\* After "self.mic_data = []; self.desktop_data = []" no attribute names the
\* list of a thread that was started before: what that thread appends is not
\* observable any more, and which device it reads is not kept.
Rebound(t) ==
    IF IsAlive(t) THEN [t EXCEPT !.data_list = "orphan", !.device = None]
    ELSE t

SpawnsMic(m, mic_device) == m \in {"mic", "both"} /\ mic_device # None

\* Variant: "both" records the microphone only.
SpawnsDesktopOnlyMode(m, desktop_device) ==
    m = "desktop" /\ desktop_device # None

\* Variant: the desktop source is recorded in every mode.
SpawnsDesktopAnyMode(m, desktop_device) == desktop_device # None

SpawnsDesktop(m, desktop_device) ==
    m \in {"desktop", "both"} /\ desktop_device # None

\* The threads that stay alive with no attribute referring to them.  A
\* thread that is detached already lost its list to the start() that replaced
\* it: the rebinding changes nothing for it.
Displaced(t, replaced) ==
    IF replaced /\ IsAlive(t) THEN SetToBag({Rebound(t)}) ELSE EmptyBag

\* "if mic_device is None: mic_device = self.get_default_mic()", and the same
\* for desktop_device.
Resolve(device_arg, default_device) ==
    IF device_arg = None THEN default_device ELSE device_arg

\* Variant: start() spawns the workers and does not set the flag.
start_without_flag(m, mic_device, desktop_device) ==
    /\ is_recording' = is_recording
    /\ mic_data' = <<>>
    /\ desktop_data' = <<>>
    /\ mic_thread' = IF SpawnsMic(m, mic_device)
                     THEN NewThread(mic_device, "mic")
                     ELSE Rebound(mic_thread)
    /\ desktop_thread' = IF SpawnsDesktop(m, desktop_device)
                         THEN NewThread(desktop_device, "desktop")
                         ELSE Rebound(desktop_thread)
    /\ detached' = detached
                       (+) Displaced(mic_thread, SpawnsMic(m, mic_device))
                       (+) Displaced(desktop_thread,
                                     SpawnsDesktop(m, desktop_device))
    /\ started' =
           [mode |-> m,
            sources |-> {x \in {"mic"} : SpawnsMic(m, mic_device)}
                        \cup {x \in {"desktop"} :
                                 SpawnsDesktop(m, desktop_device)}]

\* start() once mic_device and desktop_device are resolved.
start(m, mic_device, desktop_device) ==
    /\ is_recording' = TRUE
    /\ mic_data' = <<>>
    /\ desktop_data' = <<>>
    /\ mic_thread' = IF SpawnsMic(m, mic_device)
                     THEN NewThread(mic_device, "mic")
                     ELSE Rebound(mic_thread)
    /\ desktop_thread' = IF SpawnsDesktop(m, desktop_device)
                         THEN NewThread(desktop_device, "desktop")
                         ELSE Rebound(desktop_thread)
    /\ detached' = detached
                       (+) Displaced(mic_thread, SpawnsMic(m, mic_device))
                       (+) Displaced(desktop_thread,
                                     SpawnsDesktop(m, desktop_device))
    /\ started' =
           [mode |-> m,
            sources |-> {x \in {"mic"} : SpawnsMic(m, mic_device)}
                        \cup {x \in {"desktop"} :
                                 SpawnsDesktop(m, desktop_device)}]

\* What get_default_mic() / get_default_loopback() can return for a device
\* argument: they are called only when the argument is None.
DefaultsFor(device_arg, device_id) ==
    IF device_arg = None THEN {None, device_id} ELSE {None}

\* The argument lists of start(), <<mode, mic_device, desktop_device>>, each
\* with what the two default lookups return.
StartArgs ==
    {a \in Modes \X {None, MicDevice} \X {None, LoopbackDevice}
             \X {None, MicDevice} \X {None, LoopbackDevice} :
        /\ a[4] \in DefaultsFor(a[2], MicDevice)
        /\ a[5] \in DefaultsFor(a[3], LoopbackDevice)}

\* The calls these come to after the resolution: calls that resolve to the
\* same devices do the same.
StartCalls ==
    {<<a[1], Resolve(a[2], a[4]), Resolve(a[3], a[5])>> : a \in StartArgs}

\* A caller of the session calls start() between two of its own calls.
Start ==
    /\ pc = "idle"
    /\ \E call \in StartCalls :
        /\ start(call[1], call[2], call[3])
        /\ BagCardinality(detached') <= MaxDetached
        /\ UNCHANGED <<lock, pc, mic_audio, desktop_audio, audio,
                   appvars>>

(* ------------------------- AudioRecorder.stop -------------------------- *)

RECURSIVE Concatenate(_)
Concatenate(chunks) ==
    IF chunks = <<>> THEN <<>>
    ELSE Head(chunks) \o Concatenate(Tail(chunks))

Half == <<1, 2>>

Headroom == Rat(95, 100)

\* Variant: the peak is brought to 1, not to 0.95.
NormalizeToUnity(combined, max_val) ==
    IF RatLess(Zero, max_val)
    THEN [i \in 1..Len(combined) |-> RatDiv(combined[i], max_val)]
    ELSE combined

\* Variant: the division is done whatever the peak is.
NormalizeUnguarded(combined, max_val) ==
    [i \in 1..Len(combined) |->
         RatMul(RatDiv(combined[i], max_val), Headroom)]

\* "combined = combined / max_val * 0.95" when "max_val > 0".
Normalize(combined, max_val) ==
    IF RatLess(Zero, max_val)
    THEN [i \in 1..Len(combined) |->
              RatMul(RatDiv(combined[i], max_val), Headroom)]
    ELSE combined

\* Variant: the shorter source is padded with silence to the longer one.
MixDownPadded(mic, desktop) ==
    IF mic # Nothing /\ desktop # Nothing
    THEN LET max_len == IF Len(mic[1]) >= Len(desktop[1]) THEN Len(mic[1])
                        ELSE Len(desktop[1])
             At(x, i) == IF i <= Len(x) THEN x[i] ELSE Zero
             combined == [i \in 1..max_len |->
                              RatAdd(RatMul(At(mic[1], i), Half),
                                     RatMul(At(desktop[1], i), Half))]
         IN  IF max_len > 0 THEN Normalize(combined, PeakAbs(combined))
             ELSE <<>>
    ELSE IF mic # Nothing THEN mic[1]
    ELSE IF desktop # Nothing THEN desktop[1]
    ELSE <<>>

\* Variant: a single source is normalised like a mix.
MixDownScalesSingleSource(mic, desktop) ==
    IF mic # Nothing /\ desktop # Nothing
    THEN LET min_len == Min(Len(mic[1]), Len(desktop[1]))
             combined == [i \in 1..min_len |->
                              RatAdd(RatMul(mic[1][i], Half),
                                     RatMul(desktop[1][i], Half))]
         IN  IF min_len > 0 THEN Normalize(combined, PeakAbs(combined))
             ELSE <<>>
    ELSE IF mic # Nothing THEN Normalize(mic[1], PeakAbs(mic[1]))
    ELSE IF desktop # Nothing THEN Normalize(desktop[1], PeakAbs(desktop[1]))
    ELSE <<>>

\* The "Combine audio" part of stop().
MixDown(mic, desktop) ==
    IF mic # Nothing /\ desktop # Nothing
    THEN LET min_len == Min(Len(mic[1]), Len(desktop[1]))
             combined == [i \in 1..min_len |->
                              RatAdd(RatMul(mic[1][i], Half),
                                     RatMul(desktop[1][i], Half))]
         IN  IF min_len > 0 THEN Normalize(combined, PeakAbs(combined))
             ELSE <<>>
    ELSE IF mic # Nothing THEN mic[1]
    ELSE IF desktop # Nothing THEN desktop[1]
    ELSE <<>>

\* "self.is_recording = False"
stop_begin ==
    /\ is_recording' = FALSE
    /\ pc' = "join_mic"

\* A caller of the session calls stop() between two of its own calls.
StopCall ==
    /\ pc = "idle"
    /\ stop_begin
    /\ UNCHANGED <<mic_data, desktop_data, mic_thread, desktop_thread,
                   detached, lock, started, mic_audio, desktop_audio, audio,
                   appvars>>

\* Variant: join() without a timeout returns only when the thread has ended.
JoinMicUntilEnded ==
    /\ pc = "join_mic"
    /\ ~IsAlive(mic_thread)
    /\ pc' = "join_desktop"
    /\ UNCHANGED <<is_recording, mic_data, desktop_data, mic_thread,
                   desktop_thread, detached, lock, started, mic_audio,
                   desktop_audio, audio,
                   appvars>>

\* "if self.mic_thread: self.mic_thread.join(timeout=2)": the join returns
\* because the thread has ended or because the two seconds are over.
JoinMic ==
    /\ pc = "join_mic"
    /\ pc' = "join_desktop"
    /\ UNCHANGED <<is_recording, mic_data, desktop_data, mic_thread,
                   desktop_thread, detached, lock, started, mic_audio,
                   desktop_audio, audio,
                   appvars>>

JoinDesktop ==
    /\ pc = "join_desktop"
    /\ pc' = "acquire"
    /\ UNCHANGED <<is_recording, mic_data, desktop_data, mic_thread,
                   desktop_thread, detached, lock, started, mic_audio,
                   desktop_audio, audio,
                   appvars>>

\* "with self.lock:" entered by stop().
StopAcquire ==
    /\ pc = "acquire"
    /\ ~lock
    /\ lock' = TRUE
    /\ pc' = "read"
    /\ UNCHANGED <<is_recording, mic_data, desktop_data, mic_thread,
                   desktop_thread, detached, started, mic_audio, desktop_audio,
                   audio,
                   appvars>>

\* Variant: stop() empties the buffers once it has read them.
StopReadClears ==
    /\ pc = "read"
    /\ LET mic == IF mic_data # <<>> THEN Some(Concatenate(mic_data))
                  ELSE Nothing
           desktop == IF desktop_data # <<>>
                      THEN Some(Concatenate(desktop_data)) ELSE Nothing
       IN  /\ mic_audio' = mic
           /\ desktop_audio' = desktop
           /\ audio' = MixDown(mic, desktop)
    /\ mic_data' = <<>>
    /\ desktop_data' = <<>>
    /\ lock' = FALSE
    /\ pc' = "returned"
    /\ UNCHANGED <<is_recording, mic_thread, desktop_thread, detached,
                   started,
                   appvars>>

\* The reads under the lock, the mix and the return.
StopRead ==
    /\ pc = "read"
    /\ LET mic == IF mic_data # <<>> THEN Some(Concatenate(mic_data))
                  ELSE Nothing
           desktop == IF desktop_data # <<>>
                      THEN Some(Concatenate(desktop_data)) ELSE Nothing
       IN  /\ mic_audio' = mic
           /\ desktop_audio' = desktop
           /\ audio' = MixDown(mic, desktop)
    /\ lock' = FALSE
    /\ pc' = "returned"
    /\ UNCHANGED <<is_recording, mic_data, desktop_data, mic_thread,
                   desktop_thread, detached, started,
                   appvars>>

\* The caller is done with the returned value.
Discard ==
    /\ pc = "returned"
    /\ pc' = "idle"
    /\ mic_audio' = Nothing
    /\ desktop_audio' = Nothing
    /\ audio' = <<>>
    /\ UNCHANGED <<is_recording, mic_data, desktop_data, mic_thread,
                   desktop_thread, detached, lock, started,
                   appvars>>

(* ------------------------------ RecorderApp ---------------------------- *)

\* Variant: a file is written for the empty sequence too.
save_any(samples) == TRUE

\* AudioRecorder.save: no file for an empty sequence.  RecorderApp's own
\* steps keep whether a file was written; what the file holds is followed
\* in the steps that call save() on any sequence of samples.
save(samples) == Len(samples) # 0

\* toggle_recording while not recording: start_recording.  The radio button
\* (mode_var), the cached loopback list and the selected devices are what the
\* user has set up before the click; the answer is the one given to the
\* "No Desktop Audio Device" box.
Asks(mode_var, loopbacks, selected_desktop) ==
    /\ mode_var \in {"desktop", "both"}
    /\ loopbacks = {}
    /\ selected_desktop = None

\* What the user has set up before the click, and what the host answers:
\* <<mode_var, _loopbacks, _selected_mic, _selected_desktop, the answer to the
\* "No Desktop Audio Device" box, default mic, default loopback>>.
StartRecordingInputs ==
    {i \in Modes \X (SUBSET {LoopbackDevice}) \X {None, MicDevice}
             \X {None, LoopbackDevice} \X BOOLEAN
             \X {None, MicDevice} \X {None, LoopbackDevice} :
        /\ i[4] \in {None} \cup i[2]
        /\ i[6] \in DefaultsFor(i[3], MicDevice)
        /\ i[7] \in DefaultsFor(i[4], LoopbackDevice)
        /\ i[5] \/ Asks(i[1], i[2], i[4])}

\* Variant: after OK the application gives up in mode "both" too.
start_recording_path_without_fallback(i) ==
    LET asks == Asks(i[1], i[2], i[4])
    IN  IF asks /\ ~i[5] THEN <<"troubleshoot">>
        ELSE IF asks THEN <<"no source">>
        ELSE <<"start", i[1], Resolve(i[3], i[6]), Resolve(i[4], i[7])>>

\* The way start_recording takes for an input: to the troubleshoot dialog, to
\* the "Cannot record" warning, or to recorder.start with a mode and the
\* devices start() resolves.
start_recording_path(i) ==
    LET asks == Asks(i[1], i[2], i[4])
    IN  IF asks /\ ~i[5] THEN <<"troubleshoot">>
        ELSE IF asks /\ i[1] = "desktop" THEN <<"no source">>
        ELSE <<"start", IF asks THEN "mic" ELSE i[1],
               Resolve(i[3], i[6]), Resolve(i[4], i[7])>>

StartRecordingPaths == {start_recording_path(i) : i \in StartRecordingInputs}

start_recording(path) ==
    IF path[1] = "troubleshoot"
    THEN /\ shown' = "Troubleshoot"
         /\ UNCHANGED <<is_recording, mic_data, desktop_data, mic_thread,
                        desktop_thread, detached, started, app_is_recording,
                        overlay, monitor>>
    ELSE IF path[1] = "no source"
    THEN /\ shown' = "Cannot record - no audio source available."
         /\ UNCHANGED <<is_recording, mic_data, desktop_data, mic_thread,
                        desktop_thread, detached, started, app_is_recording,
                        overlay, monitor>>
    ELSE /\ start(path[2], path[3], path[4])
         /\ app_is_recording' = TRUE
         /\ overlay' = TRUE
         /\ overlays' = overlays + 1
         /\ mic_level' = Zero
         /\ desk_level' = Zero
         /\ seen' = <<0, 0>>
         /\ shown' = "Recording..."

StartRecording ==
    /\ pc = "idle"
    /\ ~app_is_recording
    /\ \E path \in StartRecordingPaths :
        /\ start_recording(path)
        /\ BagCardinality(detached') <= MaxDetached
        /\ overlays' <= MaxOverlays
        /\ UNCHANGED <<lock, pc, mic_audio, desktop_audio, audio, written,
                       catalog, encoder, database, batch, dispatch>>

\* toggle_recording while recording: stop_recording up to its call of
\* recorder.stop().  "self.overlay = None" drops the overlay: its levels
\* are not observable any more and are not kept.
StopRecording ==
    /\ pc = "idle"
    /\ app_is_recording
    /\ overlay' = FALSE
    /\ overlays' = IF overlay THEN overlays - 1 ELSE overlays
    /\ mic_level' = Zero
    /\ desk_level' = Zero
    /\ seen' = <<0, 0>>
    /\ written' = FALSE
    /\ stop_begin
    /\ UNCHANGED <<mic_data, desktop_data, mic_thread, desktop_thread,
                   detached, lock, started, mic_audio, desktop_audio, audio,
                   app_is_recording, shown, catalog, encoder, database, batch, dispatch>>

\* Variant: the Save/Approve dialog comes up for an empty recording too.
AfterStopAlwaysAsks ==
    \E result \in {"cancel", "save", "approve"}, mkdir_ok \in BOOLEAN :
        /\ pc = "returned"
        /\ app_is_recording' = FALSE
        /\ IF result = "cancel"
           THEN shown' = "Recording discarded" /\ written' = FALSE
           ELSE IF ~mkdir_ok
           THEN shown' = "Save failed" /\ written' = FALSE
           ELSE shown' = "Saved" /\ written' = save(audio)
        /\ pc' = "idle"
        /\ mic_audio' = Nothing
        /\ desktop_audio' = Nothing
        /\ audio' = <<>>
        /\ UNCHANGED <<is_recording, mic_data, desktop_data, mic_thread,
                       desktop_thread, detached, lock, started, overlay,
                       monitor, catalog, encoder, database, batch, dispatch>>

\* stop_recording after recorder.stop() has returned: the warning for an
\* empty recording, else the Save/Approve dialog and the file.
AfterStop ==
    \E result \in {"cancel", "save", "approve"}, mkdir_ok \in BOOLEAN :
        /\ pc = "returned"
        /\ app_is_recording' = FALSE
        /\ IF Len(audio) = 0
           THEN shown' = "No audio recorded." /\ written' = FALSE
           ELSE IF result = "cancel"
           THEN shown' = "Recording discarded" /\ written' = FALSE
           ELSE IF ~mkdir_ok
           THEN shown' = "Save failed" /\ written' = FALSE
           ELSE shown' = "Saved" /\ written' = save(audio)
        /\ pc' = "idle"
        /\ mic_audio' = Nothing
        /\ desktop_audio' = Nothing
        /\ audio' = <<>>
        /\ UNCHANGED <<is_recording, mic_data, desktop_data, mic_thread,
                       desktop_thread, detached, lock, started, overlay,
                       monitor, catalog, encoder, database, batch, dispatch>>

(* ---------------------------- specification ---------------------------- *)

Next ==
    \/ Start
    \/ StopCall
    \/ JoinMic
    \/ JoinDesktop
    \/ StopAcquire
    \/ StopRead
    \/ Discard
    \/ OpenStream
    \/ OpenError
    \/ LoopCheck
    \/ ReadBlock
    \/ ReadError
    \/ AppendChunk

Spec == Init /\ [][Next]_vars

\* A step of a capture thread: a stream that is being opened opens or fails,
\* the loop condition is evaluated, a device read completes (with a block or
\* with an error), a worker inside "with self.lock:" appends and leaves it.
WorkerStep ==
    OpenStream \/ OpenError \/ LoopCheck \/ ReadBlock \/ ReadError
        \/ AppendChunk

\* The session with its capture threads scheduled: they are not all held up
\* for ever.
FairSpec == Spec /\ WF_vars(WorkerStep)

\* The caller calls stop() again with the value the call before returned
\* still at hand.
StopAgain ==
    /\ pc = "returned"
    /\ stop_begin
    /\ UNCHANGED <<mic_data, desktop_data, mic_thread, desktop_thread,
                   detached, lock, started, mic_audio, desktop_audio, audio,
                   appvars>>

RepeatNext == Next \/ StopAgain

\* The session with callers that call stop() twice in a row.
RepeatSpec == Init /\ [][RepeatNext]_vars

\* The session as RecorderApp drives it.
AppNext ==
    \/ StartRecording
    \/ StopRecording
    \/ JoinMic
    \/ JoinDesktop
    \/ StopAcquire
    \/ StopRead
    \/ AfterStop
    \/ OpenStream
    \/ OpenError
    \/ LoopCheck
    \/ ReadBlock
    \/ ReadError
    \/ AppendChunk

AppSpec == Init /\ [][AppNext]_vars

(* -------------------- RecordingOverlay.update_levels ------------------- *)

One == <<1, 1>>

\* Python's min(1.0, x): x when x < 1.0, else 1.0.
Clamp(x) == IF RatLess(x, One) THEN x ELSE One

\* Variant: the level is taken from the oldest chunk.
level_of_first(data, previous) ==
    IF data # <<>>
    THEN Clamp(RatMul(PeakAbs(data[1]), <<3, 1>>))
    ELSE RatMul(previous, <<4, 5>>)

\* "min(1.0, np.abs(recent).max() * 3)" of the last chunk of a non-empty
\* list, else "level *= 0.8".
level(data, previous) ==
    IF data # <<>>
    THEN Clamp(RatMul(PeakAbs(data[Len(data)]), <<3, 1>>))
    ELSE RatMul(previous, <<4, 5>>)

\* update_levels runs on the Tk thread while the overlay is up and enters
\* "with self.recorder.lock:".
PollAcquire ==
    /\ pc = "idle"
    /\ overlay
    /\ ~lock
    /\ lock' = TRUE
    /\ pc' = "poll"
    /\ UNCHANGED <<is_recording, mic_data, desktop_data, mic_thread,
                   desktop_thread, detached, started, mic_audio,
                   desktop_audio, audio, appvars>>

\* Variant: the poll takes the chunk it has shown off the list.
PollReadConsumes ==
    /\ pc = "poll"
    /\ mic_level' = level(mic_data, mic_level)
    /\ desk_level' = level(desktop_data, desk_level)
    /\ seen' = <<Len(mic_data), Len(desktop_data)>>
    /\ mic_data' = SubSeq(mic_data, 1, Len(mic_data) - 1)
    /\ desktop_data' = SubSeq(desktop_data, 1, Len(desktop_data) - 1)
    /\ lock' = FALSE
    /\ pc' = "idle"
    /\ UNCHANGED <<is_recording, mic_thread,
                   desktop_thread, detached, started, mic_audio,
                   desktop_audio, audio, app_is_recording, overlay, overlays,
                   shown, written, catalog, encoder, database, batch, dispatch>>

\* The body of the with block, its end, and the redrawing of the two bars.
PollRead ==
    /\ pc = "poll"
    /\ mic_level' = level(mic_data, mic_level)
    /\ desk_level' = level(desktop_data, desk_level)
    /\ seen' = <<Len(mic_data), Len(desktop_data)>>
    /\ lock' = FALSE
    /\ pc' = "idle"
    /\ UNCHANGED <<is_recording, mic_data, desktop_data, mic_thread,
                   desktop_thread, detached, started, mic_audio,
                   desktop_audio, audio, app_is_recording, overlay, overlays,
                   shown, written, catalog, encoder, database, batch, dispatch>>

\* RecorderApp with the overlay's polls.
MonitorNext ==
    \/ StartRecording
    \/ StopRecording
    \/ JoinMic
    \/ JoinDesktop
    \/ StopAcquire
    \/ StopRead
    \/ AfterStop
    \/ OpenStream
    \/ OpenError
    \/ LoopCheck
    \/ ReadBlock
    \/ ReadError
    \/ AppendChunk
    \/ PollAcquire
    \/ PollRead

MonitorSpec == Init /\ [][MonitorNext]_vars

\* The polls of one overlay over the buffers a recording can hold: chunks
\* that are silent, quiet (3 * peak below 1) or at full scale, of either
\* sign, with the peak at any place of the chunk.
PolledPeaks == {Rat(v, 2 * FullScale) : v \in {-2 * FullScale, -1, 0, 1}}

PolledChunks ==
    {[i \in 1..CHUNK_SIZE |-> IF i = k THEN a ELSE RatMul(a, <<-1, 2>>)] :
        a \in PolledPeaks, k \in 1..CHUNK_SIZE}

PolledBuffers ==
    UNION {[1..n -> PolledChunks] : n \in 0..MaxChunks}

LevelInit ==
    /\ is_recording = TRUE
    /\ mic_data \in PolledBuffers
    /\ desktop_data \in PolledBuffers
    /\ Len(mic_data) + Len(desktop_data) <= MaxChunks
    /\ mic_thread = [pc |-> "loop", data_list |-> "mic", device |-> MicDevice]
    /\ desktop_thread =
           [pc |-> "loop", data_list |-> "desktop", device |-> LoopbackDevice]
    /\ detached = EmptyBag
    /\ lock = FALSE
    /\ pc = "idle"
    /\ started = [mode |-> "both", sources |-> {"mic", "desktop"}]
    /\ mic_audio = Nothing
    /\ desktop_audio = Nothing
    /\ audio = <<>>
    /\ app_is_recording = TRUE
    /\ overlay = TRUE
    /\ overlays = 1
    /\ shown = "Recording..."
    /\ written = FALSE
    /\ mic_level = Zero
    /\ desk_level = Zero
    /\ seen = <<0, 0>>
    /\ host = <<>>
    /\ app_mics = <<>>
    /\ app_loopbacks = <<>>
    /\ loaded = TRUE
    /\ sd = "returns"
    /\ default_mic = Nothing
    /\ default_loopback = Nothing
    /\ resolved = FALSE
    /\ wav_file = Nothing
    /\ save_result = "none"
    /\ companies = <<>>
    /\ coldcalls = <<>>
    /\ transcripts = <<>>
    /\ analysis = NoAnalysis
    /\ call_id = Nothing
    /\ calls = 0
    /\ dialogs = <<>>
    /\ hotkeys = 0
    /\ closing = FALSE
    /\ NoBatch

LevelNext == PollAcquire \/ PollRead

LevelSpec == LevelInit /\ [][LevelNext]_vars

(* --------------------------- the device catalog ------------------------ *)

\* The longest device list the host reports.
MaxDevices == 2

\* Strings are sequences of characters.  str.lower() on the letters A-Z.
Lowered ==
    "A" :> "a" @@ "B" :> "b" @@ "C" :> "c" @@ "D" :> "d" @@
    "E" :> "e" @@ "F" :> "f" @@ "G" :> "g" @@ "H" :> "h" @@
    "I" :> "i" @@ "J" :> "j" @@ "K" :> "k" @@ "L" :> "l" @@
    "M" :> "m" @@ "N" :> "n" @@ "O" :> "o" @@ "P" :> "p" @@
    "Q" :> "q" @@ "R" :> "r" @@ "S" :> "s" @@ "T" :> "t" @@
    "U" :> "u" @@ "V" :> "v" @@ "W" :> "w" @@ "X" :> "x" @@
    "Y" :> "y" @@ "Z" :> "z"

lower(name) ==
    [i \in 1..Len(name) |->
        IF name[i] \in DOMAIN Lowered THEN Lowered[name[i]] ELSE name[i]]

\* Python's "kw in name".
Contains(name, kw) ==
    \E i \in 0..(Len(name) - Len(kw)) : SubSeq(name, i + 1, i + Len(kw)) = kw

\* 'sound mapper', 'primary'
router_keywords ==
    {<<"s", "o", "u", "n", "d", " ", "m", "a", "p", "p", "e", "r">>,
     <<"p", "r", "i", "m", "a", "r", "y">>}

\* 'stereo mix', 'what u hear', 'loopback', 'wave out', 'output', 'mixage'
loopback_keywords ==
    {<<"s", "t", "e", "r", "e", "o", " ", "m", "i", "x">>,
     <<"w", "h", "a", "t", " ", "u", " ", "h", "e", "a", "r">>,
     <<"l", "o", "o", "p", "b", "a", "c", "k">>,
     <<"w", "a", "v", "e", " ", "o", "u", "t">>,
     <<"o", "u", "t", "p", "u", "t">>,
     <<"m", "i", "x", "a", "g", "e">>}

\* 'microphone', 'mic', 'headset', 'webcam', 'usb', 'realtek', 'input'
priority_keywords ==
    {<<"m", "i", "c", "r", "o", "p", "h", "o", "n", "e">>,
     <<"m", "i", "c">>,
     <<"h", "e", "a", "d", "s", "e", "t">>,
     <<"w", "e", "b", "c", "a", "m">>,
     <<"u", "s", "b">>,
     <<"r", "e", "a", "l", "t", "e", "k">>,
     <<"i", "n", "p", "u", "t">>}

any_keyword(name, keywords) == \E kw \in keywords : Contains(lower(name), kw)

\* Device names as hosts report them.
\* "Microsoft Sound Mapper - Input"
SoundMapperInput ==
    <<"M", "i", "c", "r", "o", "s", "o", "f", "t", " ", "S", "o", "u", "n",
      "d", " ", "M", "a", "p", "p", "e", "r", " ", "-", " ", "I", "n", "p",
      "u", "t">>

\* "Primary Sound Capture Driver"
PrimaryCapture ==
    <<"P", "r", "i", "m", "a", "r", "y", " ", "S", "o", "u", "n", "d", " ",
      "C", "a", "p", "t", "u", "r", "e", " ", "D", "r", "i", "v", "e", "r">>

\* "Stereo Mix (Realtek Audio)"
StereoMix ==
    <<"S", "t", "e", "r", "e", "o", " ", "M", "i", "x", " ", "(", "R", "e",
      "a", "l", "t", "e", "k", " ", "A", "u", "d", "i", "o", ")">>

\* "Microphone (USB Audio)"
UsbMicrophone ==
    <<"M", "i", "c", "r", "o", "p", "h", "o", "n", "e", " ", "(", "U", "S",
      "B", " ", "A", "u", "d", "i", "o", ")">>

\* "Line In"
LineIn ==
    <<"L", "i", "n", "e", " ", "I", "n">>

\* "Headset OUTPUT"
HeadsetOutput ==
    <<"H", "e", "a", "d", "s", "e", "t", " ", "O", "U", "T", "P", "U", "T">>

\* "PRIMARY WAVE OUT"
PrimaryWaveOut ==
    <<"P", "R", "I", "M", "A", "R", "Y", " ", "W", "A", "V", "E", " ", "O",
      "U", "T">>

\* "Mic"
Mic ==
    <<"M", "i", "c">>

\* "HD Webcam"
Webcam ==
    <<"H", "D", " ", "W", "e", "b", "c", "a", "m">>

HostNames ==
    {SoundMapperInput, PrimaryCapture, StereoMix, UsbMicrophone, LineIn,
     HeadsetOutput, PrimaryWaveOut, Mic, Webcam}

\* An entry of sd.query_devices().
HostDevices ==
    [name : HostNames, max_input_channels : 0..2]

HostLists == UNION {[1..n -> HostDevices] : n \in 0..MaxDevices}

\* Variant: the virtual mappers are listed like any other input device.
RECURSIVE input_devices_with_mappers(_, _)
input_devices_with_mappers(devices, i) ==
    IF i > Len(devices) THEN <<>>
    ELSE LET d == devices[i]
             listed == d.max_input_channels > 0
             entry == [id |-> i - 1, name |-> d.name,
                       is_loopback |-> any_keyword(d.name, loopback_keywords)]
         IN  (IF listed THEN <<entry>> ELSE <<>>)
                 \o input_devices_with_mappers(devices, i + 1)

get_input_devices_with_mappers(devices) ==
    input_devices_with_mappers(devices, 1)

\* The loop of get_input_devices from entry i of the list on; enumerate()
\* numbers the entries from 0.
RECURSIVE input_devices_from(_, _)
input_devices_from(devices, i) ==
    IF i > Len(devices) THEN <<>>
    ELSE LET d == devices[i]
             listed == /\ d.max_input_channels > 0
                       /\ ~Contains(lower(d.name), <<"s", "o", "u", "n", "d", " ", "m", "a", "p", "p", "e", "r">>)
                       /\ ~Contains(lower(d.name), <<"p", "r", "i", "m", "a", "r", "y">>)
             entry == [id |-> i - 1, name |-> d.name,
                       is_loopback |-> any_keyword(d.name, loopback_keywords)]
         IN  (IF listed THEN <<entry>> ELSE <<>>)
                 \o input_devices_from(devices, i + 1)

\* Variant: the list is made whatever the library's state.
get_input_devices_unguarded(devices) == input_devices_from(devices, 1)

\* get_input_devices on a host with the list devices: "if sd is None:
\* return []"; query_devices() raises before the loop has appended anything
\* and the except clause goes on to "return devices"; else the loop runs.
get_input_devices(devices) ==
    IF sd = "none" THEN <<>>
    ELSE IF sd = "raises" THEN <<>>
    ELSE input_devices_from(devices, 1)

Pair(entry) == [id |-> entry.id, name |-> entry.name]

RECURSIVE Filter(_, _)
Filter(entries, wanted) ==
    IF entries = <<>> THEN <<>>
    ELSE (IF entries[1].is_loopback = wanted THEN <<Pair(entries[1])>> ELSE <<>>)
             \o Filter(Tail(entries), wanted)

\* The sort key of get_microphones.
mic_key(m) == <<IF any_keyword(m.name, priority_keywords) THEN 0 ELSE 1, m.id>>

KeyLess(a, b) == a[1] < b[1] \/ (a[1] = b[1] /\ a[2] < b[2])

\* list.sort(key=...): a stable sort, here by insertion.
RECURSIVE Insert(_, _)
Insert(sorted, m) ==
    IF sorted = <<>> THEN <<m>>
    ELSE IF KeyLess(mic_key(m), mic_key(sorted[1])) THEN <<m>> \o sorted
    ELSE <<sorted[1]>> \o Insert(Tail(sorted), m)

RECURSIVE SortByKey(_)
SortByKey(mics) ==
    IF mics = <<>> THEN <<>>
    ELSE Insert(SortByKey(SubSeq(mics, 1, Len(mics) - 1)), mics[Len(mics)])

\* Variant: the microphones are left in the order of the host's list.
get_microphones_unsorted(devices) == Filter(get_input_devices(devices), FALSE)

get_microphones(devices) == SortByKey(Filter(get_input_devices(devices), FALSE))

get_loopback_devices(devices) == Filter(get_input_devices(devices), TRUE)

\* 'microphone', 'mic', 'headset'
strict_keywords ==
    {<<"m", "i", "c", "r", "o", "p", "h", "o", "n", "e">>,
     <<"m", "i", "c">>,
     <<"h", "e", "a", "d", "s", "e", "t">>}

\* The for loop of get_default_mic over a non-empty list.
RECURSIVE first_strict(_, _)
first_strict(mics, k) ==
    IF k > Len(mics) THEN mics[1].id
    ELSE IF any_keyword(mics[k].name, strict_keywords) THEN mics[k].id
    ELSE first_strict(mics, k + 1)

\* Variant: the first microphone of the list, whatever its name.
get_default_mic_first(devices) ==
    LET mics == get_microphones(devices)
    IN  IF mics = <<>> THEN Nothing ELSE Some(mics[1].id)

get_default_mic(devices) ==
    LET mics == get_microphones(devices)
    IN  IF mics = <<>> THEN Nothing ELSE Some(first_strict(mics, 1))

get_default_loopback(devices) ==
    LET loopbacks == get_loopback_devices(devices)
    IN  IF loopbacks # <<>> THEN Some(loopbacks[1].id) ELSE Nothing

\* RecorderApp._load_devices, at construction and at every refresh.
load_devices ==
    /\ app_mics' = get_microphones(host)
    /\ app_loopbacks' = get_loopback_devices(host)
    /\ loaded' = TRUE
    /\ UNCHANGED <<is_recording, mic_data, desktop_data, mic_thread,
                   desktop_thread, detached, lock, pc, started, mic_audio,
                   desktop_audio, audio, app_is_recording, overlay, shown,
                   written, monitor, host, sd, default_mic, default_loopback,
                   resolved, encoder, database, batch, dispatch>>

\* "mic_device = self.get_default_mic()" and "desktop_device =
\* self.get_default_loopback()", as start() asks for them.
resolve_defaults ==
    /\ default_mic' = get_default_mic(host)
    /\ default_loopback' = get_default_loopback(host)
    /\ resolved' = TRUE
    /\ UNCHANGED <<is_recording, mic_data, desktop_data, mic_thread,
                   desktop_thread, detached, lock, pc, started, mic_audio,
                   desktop_audio, audio, app_is_recording, overlay, shown,
                   written, monitor, host, sd, app_mics, app_loopbacks,
                   loaded, encoder, database, batch, dispatch>>

\* RecorderApp.__init__ before its call of _load_devices, on a host with any
\* list of devices.
CatalogInit ==
    /\ is_recording = FALSE
    /\ mic_data = <<>>
    /\ desktop_data = <<>>
    /\ mic_thread = NoThread
    /\ desktop_thread = NoThread
    /\ detached = EmptyBag
    /\ lock = FALSE
    /\ pc = "idle"
    /\ started = [mode |-> "none", sources |-> {}]
    /\ mic_audio = Nothing
    /\ desktop_audio = Nothing
    /\ audio = <<>>
    /\ app_is_recording = FALSE
    /\ overlay = FALSE
    /\ overlays = 0
    /\ shown = "Ready"
    /\ written = FALSE
    /\ mic_level = Zero
    /\ desk_level = Zero
    /\ seen = <<0, 0>>
    /\ host \in HostLists
    /\ app_mics = <<>>
    /\ app_loopbacks = <<>>
    /\ loaded = FALSE
    /\ sd \in {"none", "raises", "returns"}
    /\ default_mic = Nothing
    /\ default_loopback = Nothing
    /\ resolved = FALSE
    /\ wav_file = Nothing
    /\ save_result = "none"
    /\ companies = <<>>
    /\ coldcalls = <<>>
    /\ transcripts = <<>>
    /\ analysis = NoAnalysis
    /\ call_id = Nothing
    /\ calls = 0
    /\ dialogs = <<>>
    /\ hotkeys = 0
    /\ closing = FALSE
    /\ NoBatch

CatalogNext == load_devices \/ resolve_defaults

CatalogSpec == CatalogInit /\ [][CatalogNext]_vars

(* ------------------------- AudioRecorder.save -------------------------- *)

\* The longest sample sequence handed to save().
MaxSaved == 2

Int16Max == 32767

\* Samples in and outside [-1, 1].
SavedAmplitudes ==
    {Rat(v, 2 * FullScale) : v \in (-3 * FullScale)..(3 * FullScale)}

SavedSequences == UNION {[1..n -> SavedAmplitudes] : n \in 0..MaxSaved}

\* np.clip(x, -1, 1)
clip(x) ==
    IF RatLess(x, <<-1, 1>>) THEN <<-1, 1>>
    ELSE IF RatLess(One, x) THEN One
    ELSE x

\* The integer part of a rational, towards zero.
Truncate(q) ==
    IF q[1] >= 0 THEN q[1] \div q[2] ELSE -((-q[1]) \div q[2])

\* A 16-bit signed integer keeps the low 16 bits.
int16(v) == ((v + 32768) % 65536) - 32768

\* Variant: the sample is not clipped.
to_int16_unclipped(x) == int16(Truncate(RatMul(x, <<Int16Max, 1>>)))

\* Variant: the scale is 2^15.
to_int16_by_32768(x) == int16(Truncate(RatMul(clip(x), <<Int16Max + 1, 1>>)))

\* "(np.clip(audio, -1, 1) * 32767).astype(np.int16)" of one sample.
to_int16(x) == int16(Truncate(RatMul(clip(x), <<Int16Max, 1>>)))

encode(samples) == [i \in 1..Len(samples) |-> to_int16(samples[i])]

\* recorder.save(filepath, audio) with the audio stop() returned, as
\* stop_recording calls it; wav.write writes the file or raises.
Save ==
    \E write_ok \in BOOLEAN :
        /\ pc = "returned"
        /\ IF ~save(audio)
           THEN /\ save_result' = "False"
                /\ UNCHANGED <<wav_file, written>>
           ELSE IF write_ok
           THEN /\ save_result' = "True"
                /\ wav_file' = Some(encode(audio))
                /\ written' = TRUE
           ELSE /\ save_result' = "raised"
                /\ UNCHANGED <<wav_file, written>>
        /\ UNCHANGED <<is_recording, mic_data, desktop_data, mic_thread,
                       desktop_thread, detached, lock, pc, started, mic_audio,
                       desktop_audio, audio, app_is_recording, overlay, shown,
                       monitor, catalog, database, batch, dispatch>>

\* save() on any sequence of samples, before a file exists.
EncodeInit ==
    /\ is_recording = FALSE
    /\ mic_data = <<>>
    /\ desktop_data = <<>>
    /\ mic_thread = NoThread
    /\ desktop_thread = NoThread
    /\ detached = EmptyBag
    /\ lock = FALSE
    /\ pc = "returned"
    /\ started = [mode |-> "none", sources |-> {}]
    /\ mic_audio = Nothing
    /\ desktop_audio = Nothing
    /\ audio \in SavedSequences
    /\ app_is_recording = TRUE
    /\ overlay = FALSE
    /\ overlays = 0
    /\ shown = "Ready"
    /\ written = FALSE
    /\ mic_level = Zero
    /\ desk_level = Zero
    /\ seen = <<0, 0>>
    /\ host = <<>>
    /\ app_mics = <<>>
    /\ app_loopbacks = <<>>
    /\ loaded = TRUE
    /\ sd = "returns"
    /\ default_mic = Nothing
    /\ default_loopback = Nothing
    /\ resolved = FALSE
    /\ wav_file = Nothing
    /\ save_result = "none"
    /\ companies = <<>>
    /\ coldcalls = <<>>
    /\ transcripts = <<>>
    /\ analysis = NoAnalysis
    /\ call_id = Nothing
    /\ calls = 0
    /\ dialogs = <<>>
    /\ hotkeys = 0
    /\ closing = FALSE
    /\ NoBatch

EncodeNext == Save

EncodeSpec == EncodeInit /\ [][EncodeNext]_vars

(* ------------------- AppwriteService.save_call_analysis ---------------- *)

\* How many times save_call_analysis is called.
MaxCalls == 2

\* The keys of COMPANIES_ATTRIBUTES and of COLDCALLS_ATTRIBUTES.
COMPANIES_ATTRIBUTES ==
    {"owner_name", "company_name", "company_location", "google_maps_link"}

COLDCALLS_ATTRIBUTES ==
    {"company_id", "caller_name", "recipients", "call_outcome",
     "interest_level", "objections", "pain_points", "follow_up_actions",
     "call_summary", "call_duration_estimate", "model_used", "claimed_by"}

\* A dict is a function on its keys; a Python value v is Some(v) and None is
\* Nothing.  d.get(k), and d.pop(k, None) as far as its result goes:
Get(d, k) == IF k \in DOMAIN d THEN d[k] ELSE Nothing

\* d without the keys popped from it.
Without(d, keys) == [k \in DOMAIN d \ keys |-> d[k]]

\* {k: v for k, v in d.items() if k in keys}
Keep(d, keys) == [k \in DOMAIN d \cap keys |-> d[k]]

\* {k: v for k, v in d.items() if v is not None}
NotNone(d) == [k \in {j \in DOMAIN d : d[j] # Nothing} |-> d[k]]

\* d[k] = v
Put(d, k, v) == [j \in DOMAIN d \cup {k} |-> IF j = k THEN v ELSE d[j]]

\* The truth value of a string or None.
Truthy(v) == v # Nothing /\ v # Some("")

\* ID.unique(): an id no row of the three tables has.
unique(c, k, t) == 1 + Len(c) + Len(k) + Len(t)

\* The analyses save_call_analysis is given: dicts with these keys, every
\* other field of a CallAnalysis being None.
Analyses ==
    [transcript : {Some(""), Some("Hello")},
     caller_name : {Nothing},
     company_name :
         {Nothing, Some(""), Some("Some Company"), Some("New Company")},
     phone_number : {Nothing, Some("5555555555"), Some("9999999999")}]

\* The rows the companies table may hold before the first call, whoever
\* wrote them: some carry a phone_numbers attribute.
ExistingCompanies ==
    {[company_name |-> Some("Some Company"),
      phone_numbers |-> Some("5555555555")],
     [company_name |-> Some("Other Company")]}

ExistingTables ==
    {<<>>} \cup
    {<<[id |-> 1, data |-> d]>> : d \in ExistingCompanies} \cup
    {<<[id |-> 1, data |-> p[1]], [id |-> 2, data |-> p[2]]>> :
        p \in {q \in ExistingCompanies \X ExistingCompanies : q[1] # q[2]}}

\* save_company(company_data): the table and the id it returns; create_row
\* raises an AppwriteException when ok is false.
save_company(company_data, ok) ==
    LET data == NotNone(Keep(company_data, COMPANIES_ATTRIBUTES))
        row_id == unique(companies, coldcalls, transcripts)
    IN  IF ok
        THEN [companies |-> Append(companies, [id |-> row_id, data |-> data]),
              id |-> Some(row_id)]
        ELSE [companies |-> companies, id |-> Nothing]

\* The list fields of the cold-call data: a field that is not set becomes
\* the string "[]".
with_list_fields(data) ==
    [k \in DOMAIN data \cup {"objections", "pain_points", "follow_up_actions"}
        |-> IF k \in {"objections", "pain_points", "follow_up_actions"}
               /\ Get(data, k) = Nothing
            THEN Some("[]")
            ELSE data[k]]

\* save_call_analysis(analysis); each of the three create_row calls raises
\* an AppwriteException when its flag is false.
save_call_analysis(a, company_ok, call_ok, transcript_ok) ==
    LET transcript_text == Get(a, "transcript")
        popped == Without(a, {"transcript"})
        company_data ==
            NotNone([k \in COMPANIES_ATTRIBUTES |-> Get(popped, k)])
        rest == Without(popped, COMPANIES_ATTRIBUTES)
        saved ==
            IF Truthy(Get(company_data, "company_name"))
            THEN save_company(company_data, company_ok)
            ELSE [companies |-> companies, id |-> Nothing]
        linked ==
            IF saved.id # Nothing
            THEN Put(rest, "company_id", saved.id)
            ELSE rest
        data == NotNone(Keep(with_list_fields(linked), COLDCALLS_ATTRIBUTES))
        row_id == unique(saved.companies, coldcalls, transcripts)
        called == Append(coldcalls, [id |-> row_id, data |-> data])
        transcript_id == unique(saved.companies, called, transcripts)
    IN  /\ calls < MaxCalls
        /\ calls' = calls + 1
        /\ analysis' = a
        /\ companies' = saved.companies
        /\ IF ~call_ok
           THEN /\ call_id' = Nothing
                /\ UNCHANGED <<coldcalls, transcripts>>
           ELSE /\ coldcalls' = called
                /\ IF ~Truthy(transcript_text)
                   THEN /\ call_id' = Some(row_id)
                        /\ UNCHANGED transcripts
                   ELSE IF transcript_ok
                   THEN /\ call_id' = Some(row_id)
                        /\ transcripts' =
                               Append(transcripts,
                                      [id |-> transcript_id,
                                       data |-> [call_id |-> Some(row_id),
                                                 transcript |->
                                                     transcript_text]])
                   ELSE /\ call_id' = Nothing
                        /\ UNCHANGED transcripts
        /\ UNCHANGED <<is_recording, mic_data, desktop_data, mic_thread,
                       desktop_thread, detached, lock, pc, started, mic_audio,
                       desktop_audio, audio, app_is_recording, overlay, shown,
                       written, monitor, catalog, encoder, dispatch, batch>>

SaveCallAnalysis ==
    \E a \in Analyses, company_ok \in BOOLEAN, call_ok \in BOOLEAN,
       transcript_ok \in BOOLEAN :
        save_call_analysis(a, company_ok, call_ok, transcript_ok)

\* The service over a companies table that already holds rows.
ServiceInit ==
    /\ is_recording = FALSE
    /\ mic_data = <<>>
    /\ desktop_data = <<>>
    /\ mic_thread = NoThread
    /\ desktop_thread = NoThread
    /\ detached = EmptyBag
    /\ lock = FALSE
    /\ pc = "idle"
    /\ started = [mode |-> "none", sources |-> {}]
    /\ mic_audio = Nothing
    /\ desktop_audio = Nothing
    /\ audio = <<>>
    /\ app_is_recording = FALSE
    /\ overlay = FALSE
    /\ overlays = 0
    /\ shown = "Ready"
    /\ written = FALSE
    /\ mic_level = Zero
    /\ desk_level = Zero
    /\ seen = <<0, 0>>
    /\ host = <<>>
    /\ app_mics = <<>>
    /\ app_loopbacks = <<>>
    /\ loaded = TRUE
    /\ sd = "returns"
    /\ default_mic = Nothing
    /\ default_loopback = Nothing
    /\ resolved = FALSE
    /\ wav_file = Nothing
    /\ save_result = "none"
    /\ companies \in ExistingTables
    /\ coldcalls = <<>>
    /\ transcripts = <<>>
    /\ analysis = NoAnalysis
    /\ call_id = Nothing
    /\ calls = 0
    /\ dialogs = <<>>
    /\ hotkeys = 0
    /\ closing = FALSE
    /\ NoBatch

ServiceNext == SaveCallAnalysis

ServiceSpec == ServiceInit /\ [][ServiceNext]_vars

(* ---------------------------- the event loop --------------------------- *)

\* How many modal dialogs are open at once, and how many hotkey callbacks
\* wait in the queue.
MaxDialogs == 2

MaxQueued == 1

\* What the user has set up before a click:
\* <<mode_var, _loopbacks, _selected_mic, _selected_desktop>>.
Setup(i) == <<i[1], i[2], i[3], i[4]>>

NoSetup == <<"none", {}, None, None>>

\* The set-ups of the start_recording calls that wait in their question
\* box.  The controls of the main window cannot be used while a modal dialog
\* is open: a toggle_recording dispatched then finds the same set-up.
OpenSetups ==
    {dialogs[k].setup :
        k \in {j \in 1..Len(dialogs) :
                  dialogs[j].handler = "start_recording"}}

\* _on_hotkey, on the keyboard library's thread:
\* "self.root.after(0, self.toggle_recording)".
OnHotkey ==
    /\ ~closing
    /\ hotkeys < MaxQueued
    /\ hotkeys' = hotkeys + 1
    /\ UNCHANGED <<is_recording, mic_data, desktop_data, mic_thread,
                   desktop_thread, detached, lock, pc, started, mic_audio,
                   desktop_audio, audio, app_is_recording, overlay, shown,
                   written, monitor, catalog, encoder, database, batch, dialogs,
                   closing>>

\* toggle_recording, called by the record button (which no modal dialog
\* covers) or as a queued hotkey callback by the event loop the main thread
\* is in: the main loop or the loop of the dialog on top.  start_recording
\* either opens the "No Desktop Audio Device" box and waits in it, or goes
\* on to recorder.start(); stop_recording goes up to its call of
\* recorder.stop().
toggle_recording(from_hotkey) ==
    /\ pc = "idle"
    /\ IF from_hotkey
       THEN hotkeys > 0 /\ hotkeys' = hotkeys - 1
       ELSE dialogs = <<>> /\ hotkeys' = hotkeys
    /\ closing' = closing
    /\ IF ~app_is_recording
       THEN \E i \in StartRecordingInputs :
                /\ OpenSetups \subseteq {Setup(i)}
                /\ IF Asks(i[1], i[2], i[4])
                   THEN /\ Len(dialogs) < MaxDialogs
                        /\ dialogs' =
                               Append(dialogs,
                                      [handler |-> "start_recording",
                                       setup |-> Setup(i),
                                       audio |-> <<>>])
                        /\ UNCHANGED <<is_recording, mic_data, desktop_data,
                                       mic_thread, desktop_thread, detached,
                                       lock, pc, started, mic_audio,
                                       desktop_audio, audio,
                                       app_is_recording, overlay, shown,
                                       written, monitor, catalog, encoder,
                                       database, batch>>
                   ELSE /\ start_recording(start_recording_path(i))
                        /\ BagCardinality(detached') <= MaxDetached
                        /\ overlays' <= MaxOverlays
                        /\ UNCHANGED <<lock, pc, mic_audio, desktop_audio,
                                       audio, written, catalog, encoder,
                                       database, batch, dialogs>>
       ELSE /\ Len(dialogs) < MaxDialogs
            /\ overlay' = FALSE
            /\ overlays' = IF overlay THEN overlays - 1 ELSE overlays
            /\ mic_level' = Zero
            /\ desk_level' = Zero
            /\ seen' = <<0, 0>>
            /\ written' = FALSE
            /\ stop_begin
            /\ UNCHANGED <<mic_data, desktop_data, mic_thread,
                           desktop_thread, detached, lock, started,
                           mic_audio, desktop_audio, audio,
                           app_is_recording, shown, catalog, encoder,
                           database, batch, dialogs>>

Click == toggle_recording(FALSE)

DispatchHotkey == toggle_recording(TRUE)

\* stop_recording once recorder.stop() has returned:
\* "self.is_recording = False", then the warning box for an empty recording
\* or the Save/Approve dialog opens and the handler waits in it.
StopRecordingAsks ==
    /\ pc = "returned"
    /\ ~closing
    /\ app_is_recording' = FALSE
    /\ dialogs' = Append(dialogs, [handler |-> "stop_recording",
                                   setup |-> NoSetup,
                                   audio |-> audio])
    /\ pc' = "idle"
    /\ mic_audio' = Nothing
    /\ desktop_audio' = Nothing
    /\ audio' = <<>>
    /\ UNCHANGED <<is_recording, mic_data, desktop_data, mic_thread,
                   desktop_thread, detached, lock, started, overlay, shown,
                   written, monitor, catalog, encoder, database, batch, hotkeys,
                   closing>>

\* The dialog on top is closed and the handler that waited in it goes on
\* to its end: start_recording with the answer to its question,
\* stop_recording with the result of the Save/Approve dialog.
CloseDialog ==
    /\ pc = "idle"
    /\ dialogs # <<>>
    /\ dialogs' = SubSeq(dialogs, 1, Len(dialogs) - 1)
    /\ LET top == dialogs[Len(dialogs)]
       IN  IF top.handler = "start_recording"
           THEN \E i \in StartRecordingInputs :
                    /\ Setup(i) = top.setup
                    /\ start_recording(start_recording_path(i))
                    /\ BagCardinality(detached') <= MaxDetached
                    /\ overlays' <= MaxOverlays
                    /\ UNCHANGED <<lock, pc, mic_audio, desktop_audio,
                                   audio, written, catalog, encoder,
                                   database, batch, hotkeys, closing>>
           ELSE \E result \in {"cancel", "save", "approve"},
                   mkdir_ok \in BOOLEAN :
                    /\ IF Len(top.audio) = 0
                       THEN shown' = "No audio recorded."
                            /\ written' = FALSE
                       ELSE IF result = "cancel"
                       THEN shown' = "Recording discarded"
                            /\ written' = FALSE
                       ELSE IF ~mkdir_ok
                       THEN shown' = "Save failed" /\ written' = FALSE
                       ELSE shown' = "Saved" /\ written' = save(top.audio)
                    /\ UNCHANGED <<is_recording, mic_data, desktop_data,
                                   mic_thread, desktop_thread, detached,
                                   lock, pc, started, mic_audio,
                                   desktop_audio, audio, app_is_recording,
                                   overlay, monitor, catalog, encoder,
                                   database, batch, hotkeys, closing>>

\* _on_close, the main window's close button, which no modal dialog covers:
\* "if self.is_recording: self.recorder.stop()", up to that call, else
\* "self.root.destroy()" at once.
OnClose ==
    /\ pc = "idle"
    /\ dialogs = <<>>
    /\ closing' = TRUE
    /\ IF app_is_recording
       THEN stop_begin /\ UNCHANGED overlays
       ELSE pc' = "destroyed" /\ overlays' = 0 /\ UNCHANGED is_recording
    /\ UNCHANGED <<mic_data, desktop_data, mic_thread, desktop_thread,
                   detached, lock, started, mic_audio, desktop_audio, audio,
                   app_is_recording, overlay, shown, written, mic_level,
                   desk_level, seen, catalog, encoder, database, batch, dialogs,
                   hotkeys>>

\* "self.root.destroy()" once the recorder.stop() of _on_close has returned:
\* the main window goes and every window of it, the overlays too.
Destroy ==
    /\ pc = "returned"
    /\ closing
    /\ pc' = "destroyed"
    /\ overlays' = 0
    /\ mic_audio' = Nothing
    /\ desktop_audio' = Nothing
    /\ audio' = <<>>
    /\ UNCHANGED <<is_recording, mic_data, desktop_data, mic_thread,
                   desktop_thread, detached, lock, started, app_is_recording,
                   overlay, shown, written, mic_level, desk_level, seen,
                   catalog, encoder, database, batch, dispatch>>

\* RecorderApp with its event loop: clicks, hotkeys, dialogs and the capture
\* threads.  The devices deliver no block here: a thread opens its stream,
\* evaluates its loop condition and waits in stream.read(), which fails or
\* goes on waiting.  What the buffers hold has no part in which handler runs
\* when, and no step of a thread writes is_recording.
DispatchNext ==
    \/ OnHotkey
    \/ Click
    \/ DispatchHotkey
    \/ JoinMic
    \/ JoinDesktop
    \/ StopAcquire
    \/ StopRead
    \/ StopRecordingAsks
    \/ CloseDialog
    \/ OnClose
    \/ Destroy
    \/ OpenStream
    \/ OpenError
    \/ LoopCheck
    \/ ReadError

DispatchSpec == Init /\ [][DispatchNext]_vars

(* --------------------------- transcribe_calls.py ----------------------- *)

\* How many audio files the input directory holds and how many runs of the
\* script are followed.
MaxFiles == 2

MaxRuns == 2

\* "max_retries = 3"
max_retries == 3

\* audio_file.name and audio_file.stem of the files find_audio_files returns,
\* in its sorted order.
Name(i) == <<"f1.wav", "f2.wav", "f3.wav", "f4.wav">>[i]

Stem(i) == <<"f", <<"1", "2", "3", "4">>[i]>>

\* Strings that go into file names are sequences of characters.  The
\* recording timestamps the files' metadata give:
Timestamps == {<<"1">>, <<"2">>}

\* What the parsed response holds of the keys that go into the file name:
\* null or a string.
Results ==
    [company_name : {Nothing, Some(<<"a">>)},
     recipients : {Nothing, Some(<<"a">>)},
     call_date_pkt : {Nothing, Some(<<"1", ":", ":", "2">>)}]

\* str(e) of the exception generate_content raised, as the except clause
\* looks at it: whether "429" and whether "RESOURCE_EXHAUSTED" is in it.
ErrorStrings == [has_429 : BOOLEAN, has_RESOURCE_EXHAUSTED : BOOLEAN]

NoError == [has_429 |-> FALSE, has_RESOURCE_EXHAUSTED |-> FALSE]

\* Python's truth value of an optional string.
IsSet(x) == x # Nothing /\ x[1] # <<>>

RECURSIVE LStrip(_)
LStrip(s) == IF s # <<>> /\ Head(s) = " " THEN LStrip(Tail(s)) ELSE s

RECURSIVE RStrip(_)
RStrip(s) ==
    IF s # <<>> /\ s[Len(s)] = " " THEN RStrip(SubSeq(s, 1, Len(s) - 1))
    ELSE s

\* re.sub(r'_+', '_', s)
RECURSIVE Collapse(_)
Collapse(s) ==
    IF Len(s) < 2 THEN s
    ELSE IF s[1] = "_" /\ s[2] = "_" THEN Collapse(Tail(s))
    ELSE <<s[1]>> \o Collapse(Tail(s))

\* s.replace(c, with) for a character c.
RECURSIVE ReplaceChar(_, _, _)
ReplaceChar(s, c, with) ==
    IF s = <<>> THEN <<>>
    ELSE (IF Head(s) = c THEN with ELSE <<Head(s)>>)
             \o ReplaceChar(Tail(s), c, with)

Forbidden == {"<", ">", ":", "\"", "/", "\\", "|", "?", "*"}

sanitize_filename(name) ==
    IF name = <<>> THEN <<"U", "n", "k", "n", "o", "w", "n">>
    ELSE LET replaced == [k \in 1..Len(name) |->
                              IF name[k] \in Forbidden THEN "_" ELSE name[k]]
             sanitized == Collapse(RStrip(LStrip(replaced)))
         IN  SubSeq(sanitized, 1, Min(Len(sanitized), 100))

\* "_".join(parts)
RECURSIVE Join(_)
Join(parts) ==
    IF Len(parts) = 1 THEN parts[1]
    ELSE parts[1] \o <<"_">> \o Join(Tail(parts))

\* The CallAnalysis transcribe_and_analyze builds of the parsed response:
\* "if not call_date_pkt: call_date_pkt = timestamp_prefix".
CallAnalysis(result, timestamp_prefix) ==
    [timestamp |-> timestamp_prefix,
     company_name |-> result.company_name,
     recipients |-> result.recipients,
     call_date_pkt |-> IF IsSet(result.call_date_pkt)
                       THEN result.call_date_pkt[1]
                       ELSE timestamp_prefix]

\* save_analysis: "Build filename from metadata".
file_stem(a, base_name) ==
    LET parts ==
            (IF a.timestamp # <<>> THEN <<a.timestamp>> ELSE <<>>)
                \o (IF IsSet(a.company_name)
                    THEN <<sanitize_filename(a.company_name[1])>> ELSE <<>>)
                \o (IF IsSet(a.recipients)
                    THEN <<sanitize_filename(a.recipients[1])>> ELSE <<>>)
                \o (IF a.call_date_pkt # <<>>
                    THEN <<ReplaceChar(
                               ReplaceChar(sanitize_filename(a.call_date_pkt),
                                           " ", <<"_">>),
                               ":", <<>>)>>
                    ELSE <<>>)
    IN  IF parts # <<>> THEN Join(parts) ELSE base_name

\* open(json_path, 'w') and json.dump: the file of that stem has these
\* contents now, whether it was there before or not.
WriteJson(dir, stem, source_file) ==
    {f \in dir : f.stem # stem}
        \cup {[stem |-> stem, source_file |-> source_file]}

\* The JSON file save_analysis writes, asdict(analysis): it has no
\* source_file key.
save_analysis(a, dir, base_name, json) ==
    IF json THEN WriteJson(dir, file_stem(a, base_name), Nothing) ELSE dir

\* main() after a successful analysis: save_analysis, then "Update JSON with
\* source file info" for the saved file whose suffix is .json.
save_with_source_file(a, dir, base_name, json, name) ==
    LET saved == save_analysis(a, dir, base_name, json)
    IN  IF json THEN WriteJson(saved, file_stem(a, base_name), Some(name))
        ELSE saved

get_processed_files(dir) ==
    UNION {IF f.source_file # Nothing THEN {f.source_file[1]} ELSE {} :
               f \in dir}

\* Variant: every error is retried while attempts remain.
RetriesAnyError(e, n) == n < max_retries - 1

\* '("429" in error_str or "RESOURCE_EXHAUSTED" in error_str) and attempt <
\* max_retries - 1'
Retries(e, n) ==
    (e.has_429 \/ e.has_RESOURCE_EXHAUSTED) /\ n < max_retries - 1

\* Everything but the state of the script.
rest ==
    <<is_recording, mic_data, desktop_data, mic_thread, desktop_thread,
      detached, lock, pc, started, mic_audio, desktop_audio, audio,
      app_is_recording, overlay, shown, written, monitor, catalog, encoder,
      database, dispatch>>

call_vars ==
    <<ta_pc, attempt, requests, error_str, response, parsed,
      returned_analysis>>

\* main() up to its for loop: "if args.resume: processed_files =
\* get_processed_files(output_dir)".
StartRun ==
    \E r \in BOOLEAN, json \in BOOLEAN :
        /\ main_pc = "idle"
        /\ run_count < MaxRuns
        /\ run_count' = run_count + 1
        /\ resume' = r
        /\ formats_json' = json
        /\ processed_files' =
               IF r THEN get_processed_files(output_dir) ELSE {}
        /\ index' = 1
        /\ skipped' = {}
        /\ main_pc' = "loop"
        /\ UNCHANGED <<stamps, output_dir, processed_ok, call_vars, rest>>

\* "if audio_file.name in processed_files: ... continue"
SkipFile ==
    /\ main_pc = "loop"
    /\ index <= MaxFiles
    /\ Name(index) \in processed_files
    /\ skipped' = skipped \cup {Name(index)}
    /\ index' = index + 1
    /\ UNCHANGED <<stamps, output_dir, main_pc, resume, formats_json,
                   processed_files, run_count, processed_ok, call_vars, rest>>

\* The call of transcribe_and_analyze for a file that is not skipped.
CallTranscribe ==
    /\ main_pc = "loop"
    /\ index <= MaxFiles
    /\ Name(index) \notin processed_files
    /\ main_pc' = "call"
    /\ ta_pc' = "upload"
    /\ attempt' = 0
    /\ requests' = 0
    /\ error_str' = NoError
    /\ response' = FALSE
    /\ parsed' = FALSE
    /\ returned_analysis' = Nothing
    /\ UNCHANGED <<stamps, output_dir, resume, formats_json, processed_files,
                   index, run_count, processed_ok, skipped, rest>>

\* client.files.upload: "except Exception: ... return None".
Upload ==
    \E ok \in BOOLEAN :
        /\ ta_pc = "upload"
        /\ ta_pc' = IF ok THEN "request" ELSE "returned"
        /\ UNCHANGED <<stamps, output_dir, main_pc, resume, formats_json,
                       processed_files, index, run_count, processed_ok,
                       skipped, attempt, requests, error_str, response,
                       parsed, returned_analysis, rest>>

\* One pass of "for attempt in range(max_retries)" up to the break, the
\* time.sleep or the return: client.models.generate_content returns a
\* response or raises e.
Request ==
    /\ ta_pc = "request"
    /\ requests' = requests + 1
    /\ \/ /\ response' = TRUE
          /\ ta_pc' = "parse"
          /\ UNCHANGED error_str
       \/ \E e \in ErrorStrings :
              /\ error_str' = e
              /\ ta_pc' = IF Retries(e, attempt) THEN "sleep" ELSE "returned"
              /\ UNCHANGED response
    /\ UNCHANGED <<stamps, output_dir, main_pc, resume, formats_json,
                   processed_files, index, run_count, processed_ok, skipped,
                   attempt, parsed, returned_analysis, rest>>

\* time.sleep(wait_time) is over and the for loop goes to its next value, or
\* to its else clause ("All retries exhausted", return None) when there is
\* none.
Sleep ==
    /\ ta_pc = "sleep"
    /\ attempt' = attempt + 1
    /\ ta_pc' = IF attempt + 1 < max_retries THEN "request" ELSE "returned"
    /\ UNCHANGED <<stamps, output_dir, main_pc, resume, formats_json,
                   processed_files, index, run_count, processed_ok, skipped,
                   requests, error_str, response, parsed, returned_analysis,
                   rest>>

\* "result = parse_json_response(response.text)": a JSONDecodeError returns
\* None, else the CallAnalysis is returned.
Parse ==
    \E ok \in BOOLEAN, result \in Results :
        /\ ta_pc = "parse"
        /\ parsed' = TRUE
        /\ returned_analysis' =
               IF ok THEN Some(CallAnalysis(result, stamps[index]))
               ELSE Nothing
        /\ ta_pc' = "returned"
        /\ UNCHANGED <<stamps, output_dir, main_pc, resume, formats_json,
                       processed_files, index, run_count, processed_ok,
                       skipped, attempt, requests, error_str, response, rest>>

\* main() once transcribe_and_analyze has returned: "if analysis:" the files
\* are saved and the file counts as processed, else the failure is logged;
\* then the loop goes to the next file.
AfterCall ==
    /\ main_pc = "call"
    /\ ta_pc = "returned"
    /\ IF returned_analysis # Nothing
       THEN /\ output_dir' =
                   save_with_source_file(returned_analysis[1], output_dir,
                                         Stem(index), formats_json,
                                         Name(index))
            /\ processed_ok' =
                   IF formats_json THEN processed_ok \cup {Name(index)}
                   ELSE processed_ok
       ELSE UNCHANGED <<output_dir, processed_ok>>
    /\ index' = index + 1
    /\ main_pc' = "loop"
    /\ ta_pc' = "none"
    /\ attempt' = 0
    /\ requests' = 0
    /\ error_str' = NoError
    /\ response' = FALSE
    /\ parsed' = FALSE
    /\ returned_analysis' = Nothing
    /\ UNCHANGED <<stamps, resume, formats_json, processed_files, run_count,
                   skipped, rest>>

\* The for loop is over and main() returns.
EndRun ==
    /\ main_pc = "loop"
    /\ index > MaxFiles
    /\ main_pc' = "idle"
    /\ index' = 0
    /\ UNCHANGED <<stamps, output_dir, resume, formats_json, processed_files,
                   run_count, processed_ok, skipped, call_vars, rest>>

\* Runs of the script over an input directory of MaxFiles audio files.
BatchInit ==
    /\ is_recording = FALSE
    /\ mic_data = <<>>
    /\ desktop_data = <<>>
    /\ mic_thread = NoThread
    /\ desktop_thread = NoThread
    /\ detached = EmptyBag
    /\ lock = FALSE
    /\ pc = "idle"
    /\ started = [mode |-> "none", sources |-> {}]
    /\ mic_audio = Nothing
    /\ desktop_audio = Nothing
    /\ audio = <<>>
    /\ app_is_recording = FALSE
    /\ overlay = FALSE
    /\ overlays = 0
    /\ shown = "Ready"
    /\ written = FALSE
    /\ mic_level = Zero
    /\ desk_level = Zero
    /\ seen = <<0, 0>>
    /\ host = <<>>
    /\ app_mics = <<>>
    /\ app_loopbacks = <<>>
    /\ loaded = TRUE
    /\ sd = "returns"
    /\ default_mic = Nothing
    /\ default_loopback = Nothing
    /\ resolved = FALSE
    /\ wav_file = Nothing
    /\ save_result = "none"
    /\ companies = <<>>
    /\ coldcalls = <<>>
    /\ transcripts = <<>>
    /\ analysis = NoAnalysis
    /\ call_id = Nothing
    /\ calls = 0
    /\ dialogs = <<>>
    /\ hotkeys = 0
    /\ closing = FALSE
    /\ stamps \in [1..MaxFiles -> Timestamps]
    /\ NoRun
    /\ NoCall

BatchNext ==
    \/ StartRun
    \/ SkipFile
    \/ CallTranscribe
    \/ Upload
    \/ Request
    \/ Sleep
    \/ Parse
    \/ AfterCall
    \/ EndRun

BatchSpec == BatchInit /\ [][BatchNext]_vars

\* A step of transcribe_and_analyze: an API call returns or raises, a sleep
\* ends.
CallStep == Upload \/ Request \/ Sleep \/ Parse

\* The script with API calls that come back.
FairBatchSpec == BatchSpec /\ WF_vars(CallStep)

(* ------------------------------ properties ----------------------------- *)

\* The step is the call of start() that resolves to c, made by the main
\* thread between two handlers.
IsStart(c) == pc = "idle" /\ start(c[1], c[2], c[3])

\* What every call of start() does, whatever its arguments: a step that does
\* not do this is no call of start().
MayBeStart ==
    /\ pc = "idle"
    /\ is_recording'
    /\ mic_data' = <<>>
    /\ desktop_data' = <<>>
    /\ mic_thread'.pc = "open" \/ mic_thread' = Rebound(mic_thread)
    /\ desktop_thread'.pc = "open" \/ desktop_thread' = Rebound(desktop_thread)

session == <<is_recording, mic_data, desktop_data, mic_thread,
             desktop_thread, detached>>

\* C1: start() on a session that is already recording is rejected: after the
\* call is_recording, both buffers and the running workers are what they were
\* before it (no buffer reset, no new worker).
C1_StartWhileRecordingRejected ==
    [][\A c \in StartCalls :
           (is_recording /\ IsStart(c)) => UNCHANGED session]_vars

\* C7: when start() can resolve no device for any source its mode requires,
\* the session does not enter the Recording state.
NoSourceAvailable(c) ==
    /\ c[1] \in {"mic", "both"} => c[2] = None
    /\ c[1] \in {"desktop", "both"} => c[3] = None

C7_NoSourceIsAnError ==
    [][\A c \in StartCalls :
           (~is_recording /\ NoSourceAvailable(c) /\ IsStart(c))
               => ~is_recording']_vars

(* ------------------------- what stop() returns ------------------------- *)

\* The step in which stop() reads the buffers under the lock and returns.
IsStopRead == pc = "read" /\ pc' = "returned"

\* Sample i of a buffer whose chunks hold CHUNK_SIZE samples each.
FlatAt(chunks, i) ==
    chunks[((i - 1) \div CHUNK_SIZE) + 1][((i - 1) % CHUNK_SIZE) + 1]

Samples(chunks) == Len(chunks) * CHUNK_SIZE

\* Sample i of 0.5 * mic + 0.5 * desktop.
MixAt(i) ==
    RatMul(RatAdd(FlatAt(mic_data, i), FlatAt(desktop_data, i)), <<1, 2>>)

MinLen == Min(Samples(mic_data), Samples(desktop_data))

BothProduced == Len(mic_data) >= 1 /\ Len(desktop_data) >= 1

\* out is the mix, sample by sample, times one factor common to all samples.
IsScaledMix(out) ==
    /\ Len(out) = MinLen
    /\ \/ \A i \in 1..MinLen : MixAt(i) = Zero /\ out[i] = Zero
       \/ \E k \in 1..MinLen :
              /\ MixAt(k) # Zero
              /\ \A i \in 1..MinLen :
                     out[i] = RatMul(RatDiv(out[k], MixAt(k)), MixAt(i))

\* The amplitudes a sample can have.
Amplitudes == {Rat(v, 2 * FullScale) : v \in (-2 * FullScale)..(2 * FullScale)}

\* What stop() returns for the buffers with sample j of one of them replaced.
StopOf(mic, desktop) == MixDown(Some(mic), Some(desktop))

WithMicSample(j, a) ==
    StopOf([Concatenate(mic_data) EXCEPT ![j] = a], Concatenate(desktop_data))

WithDesktopSample(j, a) ==
    StopOf(Concatenate(mic_data), [Concatenate(desktop_data) EXCEPT ![j] = a])

\* No sample past MinLen has any influence on what stop() returns.
TailDiscarded(out) ==
    /\ \A j \in (MinLen + 1)..Samples(mic_data), a \in Amplitudes :
           WithMicSample(j, a) = out
    /\ \A j \in (MinLen + 1)..Samples(desktop_data), a \in Amplitudes :
           WithDesktopSample(j, a) = out

\* C2 as stated: with N >= 1 mic chunks and M >= 1 desktop chunks in the
\* buffers when stop() reads them, stop() returns min(N, M) * CHUNK_SIZE
\* samples, sample i depends on mic sample i and desktop sample i only (no
\* other sample changes it), and the tail of the longer buffer is discarded.
C2_SampleFromItsPairOnly ==
    [][(IsStopRead /\ BothProduced) =>
           /\ Len(audio') = MinLen
           /\ TailDiscarded(audio')
           /\ \A i, j \in 1..MinLen, a \in Amplitudes :
                  j # i => /\ WithMicSample(j, a)[i] = audio'[i]
                           /\ WithDesktopSample(j, a)[i] = audio'[i]]_vars

\* C2 (amended): stop() returns min(N, M) * CHUNK_SIZE samples, sample i is
\* 0.5 * mic[i] + 0.5 * desktop[i] times a factor that is the same for every
\* sample, and the tail of the longer buffer is discarded.
C2_TruncatedScaledMix ==
    [][(IsStopRead /\ BothProduced) =>
           /\ IsScaledMix(audio')
           /\ TailDiscarded(audio')]_vars

\* C2 happens: stop() has returned a mix of buffers of different lengths.
C2_Witness ==
    /\ pc = "returned"
    /\ mic_audio # Nothing
    /\ desktop_audio # Nothing
    /\ Len(mic_audio[1]) # Len(desktop_audio[1])
    /\ Len(audio) = Min(Len(mic_audio[1]), Len(desktop_audio[1]))

\* C3: when exactly one buffer is non-empty as stop() reads them, stop()
\* returns that buffer's chunks, concatenated in capture order and unscaled,
\* in every mode.
C3_SingleSourcePassthrough ==
    [][IsStopRead =>
           /\ (mic_data # <<>> /\ desktop_data = <<>>) =>
                  /\ Len(audio') = Samples(mic_data)
                  /\ \A i \in 1..Len(audio') : audio'[i] = FlatAt(mic_data, i)
           /\ (mic_data = <<>> /\ desktop_data # <<>>) =>
                  /\ Len(audio') = Samples(desktop_data)
                  /\ \A i \in 1..Len(audio') :
                         audio'[i] = FlatAt(desktop_data, i)]_vars

\* C3 happens: in "both" mode only the desktop buffer had chunks, and they
\* came back with a peak that is not 0.95.
C3_Witness ==
    /\ pc = "returned"
    /\ started.mode = "both"
    /\ mic_audio = Nothing
    /\ desktop_audio # Nothing
    /\ Len(audio) = 2 * CHUNK_SIZE
    /\ PeakAbs(audio) = <<1, 1>>

\* C4: when both sources produced samples and the mix is not all zero, stop()
\* returns the mix times one common factor, with peak amplitude exactly 0.95.
C4_NormalizedToHeadroom ==
    [][(IsStopRead /\ BothProduced /\ \E i \in 1..MinLen : MixAt(i) # Zero) =>
           /\ IsScaledMix(audio')
           /\ PeakAbs(audio') = Rat(95, 100)
           /\ \A i \in 1..MinLen : IsFinite(audio'[i])]_vars

\* C4 happens: a returned mix with a sample that is neither zero nor the peak.
C4_Witness ==
    /\ pc = "returned"
    /\ mic_audio # Nothing
    /\ desktop_audio # Nothing
    /\ \E i \in 1..Len(audio) :
           /\ audio[i] # Zero
           /\ RatLess(RatAbs(audio[i]), Rat(95, 100))

\* C5: when both sources produced samples and the mix has peak 0, stop()
\* divides nothing and returns min(lenMic, lenDesktop) zeros.
C5_SilentMixStaysZero ==
    [][(IsStopRead /\ BothProduced /\ \A i \in 1..MinLen : MixAt(i) = Zero) =>
           /\ Len(audio') = MinLen
           /\ \A i \in 1..MinLen : audio'[i] = Zero]_vars

\* C5 happens: two sources that cancel exactly gave an all-zero result.
C5_Witness ==
    /\ pc = "returned"
    /\ mic_audio # Nothing
    /\ desktop_audio # Nothing
    /\ mic_audio[1][1] # Zero
    /\ audio # <<>>
    /\ \A i \in 1..Len(audio) : audio[i] = Zero

\* C6: a recording in which neither source appended a chunk ends without an
\* exception: stop() returns the empty sequence, the application warns that
\* nothing was recorded, save() is not called and no file is written.
C6_EmptyRecordingWarns ==
    [][/\ (IsStopRead /\ mic_data = <<>> /\ desktop_data = <<>>) =>
              audio' = <<>>
       /\ (/\ pc = "returned"
           /\ pc' # "returned"
           /\ mic_audio = Nothing
           /\ desktop_audio = Nothing) =>
              /\ pc' = "idle"
              /\ shown' = "No audio recorded."
              /\ ~written'
              /\ ~app_is_recording']_vars

\* C6 happens: the application has warned about an empty recording.
C6_Witness ==
    /\ pc = "idle"
    /\ shown = "No audio recorded."
    /\ mic_data = <<>>
    /\ desktop_data = <<>>
    /\ ~written

(* --------------------------- what start() does ------------------------- *)

\* The threads that append to a list a session attribute names.
BoundTo(name, mt, dt, det) ==
    {t \in {mt, dt} \cup BagToSet(det) : IsAlive(t) /\ t.data_list = name}

\* A thread as start() has just created it.
Fresh(device_id, name) ==
    [pc |-> "open", data_list |-> name, device |-> device_id]

\* C8: in "both" mode with exactly one device resolved, start() does not
\* fail: it spawns the worker of that source and none for the other, sets
\* is_recording, and the following stop() returns that source's data.
C8_BothDegradesToOneSource ==
    [][/\ MayBeStart => \A c \in StartCalls :
              (/\ c[1] = "both"
               /\ (c[2] = None) # (c[3] = None)
               /\ IsStart(c)) =>
                  /\ is_recording'
                  /\ IF c[2] # None
                     THEN /\ mic_thread' = Fresh(c[2], "mic")
                          /\ BoundTo("mic", mic_thread', desktop_thread',
                                     detached') = {mic_thread'}
                          /\ BoundTo("desktop", mic_thread', desktop_thread',
                                     detached') = {}
                          /\ started'.sources = {"mic"}
                     ELSE /\ desktop_thread' = Fresh(c[3], "desktop")
                          /\ BoundTo("desktop", mic_thread', desktop_thread',
                                     detached') = {desktop_thread'}
                          /\ BoundTo("mic", mic_thread', desktop_thread',
                                     detached') = {}
                          /\ started'.sources = {"desktop"}
       /\ (IsStopRead /\ started.mode = "both"
               /\ started.sources = {"mic"}) =>
              /\ desktop_data = <<>>
              /\ Len(audio') = Samples(mic_data)
              /\ \A i \in 1..Len(audio') : audio'[i] = FlatAt(mic_data, i)
       /\ (IsStopRead /\ started.mode = "both"
               /\ started.sources = {"desktop"}) =>
              /\ mic_data = <<>>
              /\ Len(audio') = Samples(desktop_data)
              /\ \A i \in 1..Len(audio') :
                     audio'[i] = FlatAt(desktop_data, i)]_vars

\* C8 happens: a "both" recording that had only its desktop worker has been
\* stopped and returned samples.
C8_Witness ==
    /\ pc = "returned"
    /\ started = [mode |-> "both", sources |-> {"desktop"}]
    /\ audio # <<>>

\* C9: start(mode) spawns workers only for the sources the mode requires
\* ("mic": no desktop worker, "desktop": no mic worker, "both": one of each
\* when both devices resolve), so in "mic" mode the desktop buffer stays empty
\* until the next start(), and in "desktop" mode the mic buffer.
C9_WorkersFollowMode ==
    [][/\ MayBeStart =>
              LET mics == BoundTo("mic", mic_thread', desktop_thread',
                                  detached')
                  desktops == BoundTo("desktop", mic_thread', desktop_thread',
                                      detached')
              IN  \A c \in StartCalls :
                      (c[1] = started'.mode /\ IsStart(c)) =>
                          /\ c[1] = "mic" => desktops = {}
                          /\ c[1] = "desktop" => mics = {}
                          /\ mics \subseteq {mic_thread'}
                          /\ desktops \subseteq {desktop_thread'}
                          /\ (c[1] = "both" /\ c[2] # None /\ c[3] # None) =>
                                 /\ mic_thread' = Fresh(c[2], "mic")
                                 /\ desktop_thread' = Fresh(c[3], "desktop")
       /\ started'.mode = "mic" => desktop_data' = <<>>
       /\ started'.mode = "desktop" => mic_data' = <<>>]_vars

\* C9 happens: a "mic" recording has mic chunks while a desktop worker of an
\* earlier recording is still running, and the desktop buffer is empty.
C9_Witness ==
    /\ started.mode = "mic"
    /\ mic_data # <<>>
    /\ desktop_data = <<>>
    /\ IsAlive(desktop_thread)

(* ------------------------- stop() always returns ----------------------- *)

\* The optional sequence that stop() read from a buffer is made of the
\* chunks the buffer held then, in order: the buffer has those chunks still,
\* and any chunk after them was appended later.
IsReadFrom(read, chunks) ==
    IF read = Nothing THEN TRUE
    ELSE /\ Len(read[1]) % CHUNK_SIZE = 0
         /\ Len(read[1]) >= CHUNK_SIZE
         /\ Len(read[1]) <= Samples(chunks)
         /\ \A i \in 1..Len(read[1]) : read[1][i] = FlatAt(chunks, i)

\* C10: stop() always returns, also when a worker never comes back from its
\* device read: each join ends, the lock is free or its holder can release it
\* without another read, and the result is built from exactly the chunks that
\* are in the buffers when stop() reads them; a chunk appended later is not
\* part of what was returned.
C10_StopNeverWaitsForAWorker ==
    /\ pc = "join_mic" => ENABLED JoinMic
    /\ pc = "join_desktop" => ENABLED JoinDesktop
    /\ pc = "acquire" => (ENABLED StopAcquire \/ ENABLED AppendChunk)
    /\ pc = "read" => lock
    /\ pc = "returned" =>
           /\ IsReadFrom(mic_audio, mic_data)
           /\ IsReadFrom(desktop_audio, desktop_data)

\* C10 happens: stop() has returned while the desktop worker is still in its
\* device read, and the mic worker has appended a chunk after the read.
C10_Witness ==
    /\ pc = "returned"
    /\ desktop_thread.pc = "read"
    /\ desktop_thread.data_list = "desktop"
    /\ mic_audio # Nothing
    /\ Samples(mic_data) > Len(mic_audio[1])

(* ---------------------------- worker failures -------------------------- *)

\* The thread leaves _record_device through its except clause: from the
\* opening of the stream or from a device read straight to its end.
FailsAt(t, t2) == t.pc \in {"open", "read"} /\ t2.pc = "done"

\* C11: a device error in one worker ends that worker only: is_recording,
\* both buffers, the lock, the main thread and every other worker are as
\* before, and the Thread that has ended stays ended until a start() replaces
\* it (nothing restarts it).
C11_FailureEndsOneWorkerOnly ==
    [][/\ FailsAt(mic_thread, mic_thread') =>
              UNCHANGED <<is_recording, mic_data, desktop_data,
                          desktop_thread, detached, lock, pc, audio>>
       /\ FailsAt(desktop_thread, desktop_thread') =>
              UNCHANGED <<is_recording, mic_data, desktop_data, mic_thread,
                          detached, lock, pc, audio>>
       /\ BagCardinality(detached') < BagCardinality(detached) =>
              UNCHANGED <<is_recording, mic_data, desktop_data, mic_thread,
                          desktop_thread, pc, audio>>
       /\ (mic_thread.pc = "done" /\ mic_thread' # mic_thread) =>
              MayBeStart /\ mic_thread'.pc = "open"
       /\ (desktop_thread.pc = "done" /\ desktop_thread' # desktop_thread) =>
              MayBeStart /\ desktop_thread'.pc = "open"]_vars

\* C11 happens: in a recording of both sources the mic worker has failed
\* after appending, its chunks are still there, and the desktop worker has
\* appended more than it and is still running.
C11_Witness ==
    /\ is_recording
    /\ started.sources = {"mic", "desktop"}
    /\ mic_thread.pc = "done"
    /\ mic_data # <<>>
    /\ Len(desktop_data) > Len(mic_data)
    /\ IsAlive(desktop_thread)

(* --------------------------- start/stop cycles ------------------------- *)

\* Every thread that can append to the list a session attribute names is the
\* thread the latest start() spawned for that source.
OnlySpawnedAreBound ==
    /\ BoundTo("mic", mic_thread, desktop_thread, detached)
           \subseteq {t \in {mic_thread} : "mic" \in started.sources}
    /\ BoundTo("desktop", mic_thread, desktop_thread, detached)
           \subseteq {t \in {desktop_thread} : "desktop" \in started.sources}

\* C12: start() empties both buffers, and afterwards a buffer gets a chunk
\* only from the worker the latest start() spawned for it: a worker left over
\* from an earlier recording never appends to the buffers of a later one, so
\* what stop() reads holds samples of the latest recording only.
C12_BuffersHoldLatestRecordingOnly ==
    [][/\ OnlySpawnedAreBound
       /\ MayBeStart => \A c \in StartCalls :
              IsStart(c) =>
                  /\ mic_data' = <<>>
                  /\ desktop_data' = <<>>
                  /\ \A t \in BoundTo("mic", mic_thread', desktop_thread',
                                      detached') \cup
                              BoundTo("desktop", mic_thread', desktop_thread',
                                      detached') :
                         t.pc = "open" /\ t \in {mic_thread', desktop_thread'}
       /\ (mic_data' # mic_data /\ mic_data' # <<>>) =>
              /\ "mic" \in started.sources
              /\ mic_thread.pc = "append"
              /\ mic_thread.data_list = "mic"
              /\ mic_thread'.pc = "loop"
              /\ UNCHANGED <<desktop_thread, detached>>
       /\ (desktop_data' # desktop_data /\ desktop_data' # <<>>) =>
              /\ "desktop" \in started.sources
              /\ desktop_thread.pc = "append"
              /\ desktop_thread.data_list = "desktop"
              /\ desktop_thread'.pc = "loop"
              /\ UNCHANGED <<mic_thread, detached>>]_vars

\* C12 happens: stop() has returned the samples of a recording while a worker
\* of an earlier recording is still alive.
C12_Witness ==
    /\ pc = "returned"
    /\ mic_audio # Nothing
    /\ desktop_audio # Nothing
    /\ BagCardinality(detached) >= 1

(* ---------------------------- number of workers ------------------------ *)

\* The capture threads that are alive.
AliveWorkers ==
    (IF IsAlive(mic_thread) THEN 1 ELSE 0)
        + (IF IsAlive(desktop_thread) THEN 1 ELSE 0)
        + BagCardinality(detached)

\* C13: at every moment at most two capture workers are alive (the claim
\* adds: at most one per source, which allows no more than two either).
C13_AtMostTwoWorkers == AliveWorkers <= 2

(* --------------------------- buffers only grow ------------------------- *)

\* The buffer goes from before to after by one chunk of CHUNK_SIZE samples
\* appended at its tail.
OneChunkAppended(before, after) ==
    /\ Len(after) = Len(before) + 1
    /\ SubSeq(after, 1, Len(before)) = before
    /\ Len(after[Len(after)]) = CHUNK_SIZE

\* The step is a call of start().
IsStartStep == MayBeStart /\ \E c \in StartCalls : IsStart(c)

\* C15: between two calls of start() a buffer changes only by its own worker
\* appending one chunk at the tail (nothing is removed, reordered or
\* modified, and the other buffer is untouched in that step), and a buffer
\* whose worker has ended does not change any more.
C15_BuffersAppendOnly ==
    [][IsStartStep \/
       (/\ \/ mic_data' = mic_data
           \/ /\ OneChunkAppended(mic_data, mic_data')
              /\ mic_thread.pc = "append"
              /\ mic_thread.data_list = "mic"
              /\ mic_thread.device = MicDevice
              /\ desktop_data' = desktop_data
        /\ \/ desktop_data' = desktop_data
           \/ /\ OneChunkAppended(desktop_data, desktop_data')
              /\ desktop_thread.pc = "append"
              /\ desktop_thread.data_list = "desktop"
              /\ desktop_thread.device = LoopbackDevice
              /\ mic_data' = mic_data
        /\ ~IsAlive(mic_thread) => mic_data' = mic_data
        /\ ~IsAlive(desktop_thread) => desktop_data' = desktop_data)]_vars

\* C15 happens: the mic buffer holds two different chunks in the order they
\* were appended, its worker has ended, and the desktop worker goes on.
C15_Witness ==
    /\ Len(mic_data) >= 2
    /\ mic_data[1] # mic_data[2]
    /\ mic_thread.pc = "done"
    /\ desktop_data # <<>>
    /\ IsAlive(desktop_thread)

(* --------------------------- workers terminate ------------------------- *)

\* The detached threads that are at a position.
DetachedAt(bag, position) ==
    BagCardinality([t \in {u \in BagToSet(bag) : u.pc = position} |-> bag[t]])

\* C16: while is_recording stays false no worker starts another device read
\* after its loop check (a worker that was in a read appends that one block
\* and leaves the loop at the next check), and when is_recording stays false
\* for good every worker ends.
C16_WorkersStopAfterOneMoreChunk ==
    /\ [][(~is_recording /\ ~is_recording') =>
              /\ mic_thread'.pc = "read" => mic_thread.pc = "read"
              /\ desktop_thread'.pc = "read" => desktop_thread.pc = "read"
              /\ DetachedAt(detached', "read") <= DetachedAt(detached, "read")
              /\ mic_thread.pc = "loop" => mic_thread'.pc \in {"loop", "done"}
              /\ desktop_thread.pc = "loop" =>
                     desktop_thread'.pc \in {"loop", "done"}]_vars
    /\ (<>[](~is_recording)) => <>[](AliveWorkers = 0)

\* C16 happens: after stop() has read the buffers the mic worker has appended
\* the one block it was reading, and every worker has ended.
C16_Witness ==
    /\ pc = "returned"
    /\ ~is_recording
    /\ mic_audio # Nothing
    /\ Samples(mic_data) = Len(mic_audio[1]) + CHUNK_SIZE
    /\ started.sources = {"mic", "desktop"}
    /\ AliveWorkers = 0

\* The threads inside a "with self.lock:" block: workers between the device
\* read and the end of the append, the Tk thread in stop()'s read-and-copy
\* or in the overlay's poll.
LockHolders ==
    (IF mic_thread.pc = "append" THEN 1 ELSE 0)
    + (IF desktop_thread.pc = "append" THEN 1 ELSE 0)
    + (IF detached = EmptyBag THEN 0 ELSE DetachedAt(detached, "append"))
    + (IF pc \in {"read", "poll"} THEN 1 ELSE 0)

LockIsHeldByOne == LockHolders <= 1 /\ (lock <=> LockHolders = 1)

IsPollRead == pc = "poll" /\ pc' = "idle"

StoppedProducing(thread, data, seen_length) ==
    ~IsAlive(thread) /\ Len(data) = seen_length

\* C17: a poll for a source whose worker has ended, and that got no chunk
\* since the previous poll, sets the level to 0.8 times the level it had and
\* never raises it.
C17_StoppedSourceDecays ==
    [][ IsPollRead =>
          /\ StoppedProducing(mic_thread, mic_data, seen[1]) =>
                 /\ mic_level' = RatMul(mic_level, <<4, 5>>)
                 /\ RatLeq(mic_level', mic_level)
          /\ StoppedProducing(desktop_thread, desktop_data, seen[2]) =>
                 /\ desk_level' = RatMul(desk_level, <<4, 5>>)
                 /\ RatLeq(desk_level', desk_level)
      ]_vars

\* min(1, 3 * |x|).
Shown(x) ==
    LET y == RatMul(RatAbs(x), <<3, 1>>) IN IF RatLeq(One, y) THEN One ELSE y

\* C18: after a poll both levels lie in [0, 1], and the level of a source
\* whose buffer is not empty is min(1, 3 * |x|) for the sample x of largest
\* magnitude in the buffer's last chunk.
C18_LevelIsClampedPeakOfLastChunk ==
    [][ IsPollRead =>
          /\ RatLeq(Zero, mic_level') /\ RatLeq(mic_level', One)
          /\ RatLeq(Zero, desk_level') /\ RatLeq(desk_level', One)
          /\ mic_data # <<>> =>
                 LET recent == mic_data[Len(mic_data)]
                 IN  /\ \E i \in 1..Len(recent) : mic_level' = Shown(recent[i])
                     /\ \A i \in 1..Len(recent) :
                            RatLeq(Shown(recent[i]), mic_level')
          /\ desktop_data # <<>> =>
                 LET recent == desktop_data[Len(desktop_data)]
                 IN  /\ \E i \in 1..Len(recent) : desk_level' = Shown(recent[i])
                     /\ \A i \in 1..Len(recent) :
                            RatLeq(Shown(recent[i]), desk_level')
      ]_vars

\* A poll has shown a quiet last chunk, whose peak is not its first sample,
\* below 1 after a louder chunk, and a full-scale chunk clamped at 1.
C18_Witness ==
    /\ pc = "idle"
    /\ seen = <<2, 1>>
    /\ Len(mic_data) = 2
    /\ Len(desktop_data) = 1
    /\ RatLess(Zero, mic_level)
    /\ RatLess(mic_level, One)
    /\ RatLess(PeakAbs(mic_data[2]), PeakAbs(mic_data[1]))
    /\ RatLess(RatAbs(mic_data[2][1]), PeakAbs(mic_data[2]))
    /\ desk_level = One
    /\ RatLess(One, RatMul(PeakAbs(desktop_data[1]), <<3, 1>>))

IsPollAcquire == pc = "idle" /\ pc' = "poll"

\* C19: the two steps of a poll change nothing of the session (flag,
\* buffers, worker references and workers, the recording started, what stop()
\* returned); the poll takes the free lock in its first step and gives it
\* back in the second, the one that reads, and between the two the workers
\* go on but for their appends.
C19_PollLeavesSessionUnchanged ==
    [][ /\ (IsPollAcquire \/ IsPollRead) =>
               UNCHANGED <<is_recording, mic_data, desktop_data, mic_thread,
                           desktop_thread, detached, started, mic_audio,
                           desktop_audio, audio>>
        /\ IsPollAcquire => ~lock /\ lock'
        /\ IsPollRead => lock /\ ~lock'
        /\ (pc = "poll" /\ ~IsPollRead) =>
               lock' /\ UNCHANGED <<mic_data, desktop_data, monitor>>
      ]_vars

\* Polls have run between the appends of a recording that is still going on.
C19_Witness ==
    /\ pc = "idle"
    /\ overlay
    /\ seen = <<1, 1>>
    /\ Len(mic_data) = 2
    /\ Len(desktop_data) = 1
    /\ mic_level = One
    /\ IsAlive(mic_thread)
    /\ IsAlive(desktop_thread)

\* The number of entries of a list for the device numbered id.
Listed(list, id) == Cardinality({k \in DOMAIN list : list[k].id = id})

IsInput(d) == d.max_input_channels > 0

IsRouter(d) == \E kw \in router_keywords : Contains(lower(d.name), kw)

IsLoopbackName(d) == \E kw \in loopback_keywords : Contains(lower(d.name), kw)

\* C20: once the lists are loaded from a query that succeeded, an input
\* device without a router keyword has one entry in the loopback list and none in the microphone list when
\* its lower-cased name contains a loopback keyword, and one entry in the
\* microphone list and none in the loopback list otherwise; a device with a
\* router keyword or without input channels has no entry; every entry
\* carries the number and the name of a host device.
C20_CatalogPartition ==
    (loaded /\ sd = "returns") =>
        /\ \A i \in 1..Len(host) :
               LET d == host[i]
                   in_mics == Listed(app_mics, i - 1)
                   in_loopbacks == Listed(app_loopbacks, i - 1)
               IN  IF IsInput(d) /\ ~IsRouter(d)
                   THEN IF IsLoopbackName(d)
                        THEN in_loopbacks = 1 /\ in_mics = 0
                        ELSE in_mics = 1 /\ in_loopbacks = 0
                   ELSE in_mics = 0 /\ in_loopbacks = 0
        /\ \A k \in DOMAIN app_mics :
               /\ app_mics[k].id \in 0..(Len(host) - 1)
               /\ app_mics[k].name = host[app_mics[k].id + 1].name
        /\ \A k \in DOMAIN app_loopbacks :
               /\ app_loopbacks[k].id \in 0..(Len(host) - 1)
               /\ app_loopbacks[k].name = host[app_loopbacks[k].id + 1].name

\* The lists of a host with a router device whose upper-case name has a
\* loopback keyword and a microphone: only the microphone is listed.
C20_Witness ==
    /\ loaded
    /\ sd = "returns"
    /\ Len(host) = 2
    /\ host[1].name = PrimaryWaveOut
    /\ host[1].max_input_channels = 2
    /\ host[2].name = UsbMicrophone
    /\ host[2].max_input_channels = 1
    /\ app_mics = <<[id |-> 1, name |-> UsbMicrophone]>>
    /\ app_loopbacks = <<>>

HasMicKeyword(m) == \E kw \in priority_keywords : Contains(lower(m.name), kw)

\* C21: the microphone list, loaded from a query that succeeded, holds every
\* input device that is neither a router nor a loopback device and nothing
\* else; an entry with a microphone keyword in its name never comes after one
\* without, and two entries that both have one, or both have none, come in
\* ascending order of their ids.
C21_MicrophonesByKeywordThenId ==
    (loaded /\ sd = "returns") =>
        /\ \A i \in 1..Len(host) :
               Listed(app_mics, i - 1) =
                   IF IsInput(host[i]) /\ ~IsRouter(host[i]) /\ ~IsLoopbackName(host[i])
                   THEN 1 ELSE 0
        /\ \A k \in DOMAIN app_mics : app_mics[k].id \in 0..(Len(host) - 1)
        /\ \A k, l \in DOMAIN app_mics :
               k < l =>
                   /\ HasMicKeyword(app_mics[l]) => HasMicKeyword(app_mics[k])
                   /\ HasMicKeyword(app_mics[k]) = HasMicKeyword(app_mics[l]) =>
                          app_mics[k].id < app_mics[l].id

\* The list puts a webcam, second on the host, before a line input.
C21_Witness ==
    /\ loaded
    /\ sd = "returns"
    /\ Len(app_mics) = 2
    /\ app_mics[1] = [id |-> 1, name |-> Webcam]
    /\ app_mics[2] = [id |-> 0, name |-> LineIn]

IsStrict(m) == \E kw \in strict_keywords : Contains(lower(m.name), kw)

\* C22: the default microphone is the first entry of the microphone list
\* with a strict keyword in its name, the first entry when no entry has one,
\* and none exactly when the host lists no input device that is neither a
\* router nor a loopback device; it is never a router or a loopback device.
C22_DefaultMicrophone ==
    (resolved /\ sd = "returns") =>
        LET mics == get_microphones(host)
        IN  /\ default_mic = Nothing <=>
                   ~\E i \in 1..Len(host) :
                        IsInput(host[i]) /\ ~IsRouter(host[i]) /\ ~IsLoopbackName(host[i])
            /\ default_mic = Nothing <=> mics = <<>>
            /\ default_mic # Nothing =>
                   /\ \E k \in DOMAIN mics :
                          /\ default_mic = Some(mics[k].id)
                          /\ IF \E j \in DOMAIN mics : IsStrict(mics[j])
                             THEN /\ IsStrict(mics[k])
                                  /\ \A j \in 1..(k - 1) : ~IsStrict(mics[j])
                             ELSE k = 1
                   /\ LET d == host[default_mic[1] + 1]
                      IN  IsInput(d) /\ ~IsRouter(d) /\ ~IsLoopbackName(d)

\* The default is the second entry of the list: the first one, a webcam, has
\* no strict keyword in its name.
C22_Witness ==
    /\ resolved
    /\ sd = "returns"
    /\ Len(host) = 2
    /\ host[1] = [name |-> Webcam, max_input_channels |-> 1]
    /\ host[2] = [name |-> Mic, max_input_channels |-> 1]
    /\ default_mic = Some(1)

\* C23: when the library is absent or its query fails, get_input_devices
\* gives the empty list (it gives a list in every state of the library), the
\* two lists loaded from it are empty and both defaults are none.
C23_FailedQueryGivesEmptyLists ==
    /\ get_input_devices(host) \in Seq([id : 0..(Len(host) - 1), name : HostNames, is_loopback : BOOLEAN])
    /\ sd # "returns" =>
           /\ get_input_devices(host) = <<>>
           /\ loaded => app_mics = <<>> /\ app_loopbacks = <<>>
           /\ resolved => default_mic = Nothing /\ default_loopback = Nothing

\* The query has failed on a host with a loopback device and a microphone.
C23_Witness ==
    /\ sd = "raises"
    /\ loaded
    /\ resolved
    /\ Len(host) = 2
    /\ host[1] = [name |-> StereoMix, max_input_channels |-> 2]
    /\ host[2] = [name |-> UsbMicrophone, max_input_channels |-> 1]

\* C24: save() returns False and writes no file for the empty sequence; for
\* a sequence that is not empty it writes the file and returns True, unless
\* wav.write raises, and then it returns nothing; False is returned for the
\* empty sequence only.
C24_SaveFailsOnEmptyOnly ==
    /\ save_result = "False" =>
           Len(audio) = 0 /\ wav_file = Nothing /\ ~written
    /\ save_result = "True" =>
           Len(audio) # 0 /\ wav_file # Nothing /\ written
    /\ save_result = "raised" => Len(audio) # 0
    /\ save_result # "none" => (Len(audio) = 0 <=> save_result = "False")
    /\ Len(audio) = 0 => wav_file = Nothing /\ ~written

\* save() has been called with the empty sequence.
C24_Witness ==
    /\ save_result = "False"
    /\ audio = <<>>
    /\ wav_file = Nothing

\* v is the integer part, towards zero, of the rational q.
IsTruncationOf(v, q) ==
    IF q[1] >= 0
    THEN v >= 0 /\ v * q[2] <= q[1] /\ q[1] < (v + 1) * q[2]
    ELSE v <= 0 /\ v * q[2] >= q[1] /\ q[1] > (v - 1) * q[2]

\* x limited to [-1, 1].
Clipped(x) ==
    IF RatLeq(x, <<-1, 1>>) THEN <<-1, 1>>
    ELSE IF RatLeq(One, x) THEN One ELSE x

\* C25: the file holds as many values as the sequence has samples, in the
\* same order: value i is the integer part of 32767 times sample i limited
\* to [-1, 1], and lies in -32767..32767.
C25_ClippedScaledTruncated ==
    wav_file # Nothing =>
        LET out == wav_file[1]
        IN  /\ Len(out) = Len(audio)
            /\ \A i \in 1..Len(audio) :
                   /\ out[i] \in (-32767)..32767
                   /\ IsTruncationOf(out[i], RatMul(Clipped(audio[i]), <<32767, 1>>))

\* A sample above 1 and a negative sample whose scaled value is no
\* integer have been written.
C25_Witness ==
    /\ save_result = "True"
    /\ Len(audio) = 2
    /\ RatLess(One, audio[1])
    /\ audio[2] = <<-1, 2>>
    /\ wav_file = Some(<<32767, -16383>>)

RatDistance(a, b) == RatAbs(RatAdd(a, RatMul(<<-1, 1>>, b)))

\* C26: every sample in [-1, 1] is within 1/32767 of the value written for
\* it divided by 32767.
C26_RoundTripWithinOneStep ==
    wav_file # Nothing =>
        \A i \in 1..Len(audio) :
            (RatLeq(<<-1, 1>>, audio[i]) /\ RatLeq(audio[i], One)) =>
                RatLeq(RatDistance(audio[i], Rat(wav_file[1][i], 32767)),
                       Rat(1, 32767))

\* Samples in [-1, 1] that the 16 bits do not hold exactly, and one at
\* full scale, have been written.
C26_Witness ==
    /\ save_result = "True"
    /\ Len(audio) = 2
    /\ audio[1] = One
    /\ RatLess(Zero, audio[2])
    /\ RatLess(audio[2], One)
    /\ RatDistance(audio[2], Rat(wav_file[1][2], 32767)) # Zero

(* ----------------------- linking a call to a company ------------------- *)

\* The lookup by phone: the first company of the table whose phone_numbers
\* is the number, or Nothing.
find_company_by_phone(table, phone) ==
    LET hits == {i \in 1..Len(table) :
                    Get(table[i].data, "phone_numbers") = Some(phone)}
    IN  IF hits = {} THEN Nothing
        ELSE Some(table[CHOOSE i \in hits : \A j \in hits : i <= j])

\* The step is a call of save_call_analysis that created a cold-call row and
\* returned its id.
IsSavedCall ==
    /\ calls' = calls + 1
    /\ Len(coldcalls') = Len(coldcalls) + 1
    /\ call_id' = Some(coldcalls'[Len(coldcalls')].id)

\* The company_id of the cold-call row the step created.
LinkedCompany == Get(coldcalls'[Len(coldcalls')].data, "company_id")

\* C27: when the analysis carries a phone number and the lookup by phone
\* finds an existing company, save_call_analysis creates no company and the
\* cold-call row it creates carries the existing company's id as company_id.
C27_CallLinkedToExistingCompany ==
    [][(/\ IsSavedCall
        /\ analysis'.phone_number # Nothing
        /\ find_company_by_phone(companies, analysis'.phone_number[1])
               # Nothing)
       => /\ companies' = companies
          /\ LinkedCompany =
                 Some(find_company_by_phone(
                          companies, analysis'.phone_number[1])[1].id)]_vars

\* C28: when the analysis carries a phone number the lookup finds no company
\* for, and a company name, save_call_analysis creates a company whose data
\* holds the number as phone_numbers and the name as company_name, and the
\* cold-call row it creates carries the new company's id as company_id.
C28_NewCompanyCarriesPhone ==
    [][(/\ IsSavedCall
        /\ analysis'.phone_number # Nothing
        /\ Truthy(analysis'.company_name)
        /\ find_company_by_phone(companies, analysis'.phone_number[1])
               = Nothing
        /\ Len(companies') = Len(companies) + 1)
       => LET company == companies'[Len(companies')]
          IN  /\ Get(company.data, "phone_numbers") = analysis'.phone_number
              /\ Get(company.data, "company_name") = analysis'.company_name
              /\ LinkedCompany = Some(company.id)]_vars

(* -------------------------- refusing to start -------------------------- *)

\* The step is one of toggle_recording while not recording: it changes what
\* the user is shown or makes the application recording.
IsToggleOn ==
    /\ pc = "idle"
    /\ ~app_is_recording
    /\ app_is_recording' \/ shown' # shown

\* What the user is shown on each way through start_recording.
ShownOn(path) ==
    IF path[1] = "troubleshoot" THEN "Troubleshoot"
    ELSE IF path[1] = "no source"
    THEN "Cannot record - no audio source available."
    ELSE "Recording..."

\* The step is start_recording going the way path.
IsStartRecording(path) ==
    /\ IsToggleOn
    /\ shown' = ShownOn(path)
    /\ start_recording(path)
    /\ UNCHANGED <<lock, pc, mic_audio, desktop_audio, audio, written>>

\* The inputs on which start_recording goes each way, as a table.
InputsOn ==
    [path \in StartRecordingPaths |->
        UNION {IF start_recording_path(i) = path THEN {i} ELSE {} :
                  i \in StartRecordingInputs}] @@ <<>>

\* A microphone is selected or found by default; the application knows a
\* loopback device.
MicAvailable(i) == Resolve(i[3], i[6]) # None

DesktopAvailable(i) == i[2] # {} \/ i[4] # None

\* A source the mode of the input records is available.
SourceAvailable(i) ==
    \/ i[1] \in {"mic", "both"} /\ MicAvailable(i)
    \/ i[1] \in {"desktop", "both"} /\ DesktopAvailable(i)

\* The user answered Cancel to the "No Desktop Audio Device" question.
Cancelled(i) == Asks(i[1], i[2], i[4]) /\ ~i[5]

\* The step leaves the recorder alone, the application not recording, and
\* tells the user.
Refused ==
    /\ ~app_is_recording'
    /\ UNCHANGED <<is_recording, started, mic_thread, desktop_thread>>
    /\ shown' \in {"Troubleshoot",
                   "Cannot record - no audio source available."}

\* The step called recorder.start() and the application is recording.
Proceeded ==
    /\ app_is_recording'
    /\ is_recording'
    /\ shown' = "Recording..."

\* The sources the recording of the input has: the microphone of the modes
\* "mic" and "both" when there is one, the desktop source of the modes
\* "desktop" and "both" when the application knows a loopback device and
\* start() finds one.
SourcesOf(i) ==
    {x \in {"mic"} : i[1] \in {"mic", "both"} /\ MicAvailable(i)}
        \cup {x \in {"desktop"} :
                 /\ i[1] \in {"desktop", "both"}
                 /\ DesktopAvailable(i)
                 /\ Resolve(i[4], i[7]) # None}

EndsStartRecording ==
    /\ pc = "idle"
    /\ pc' = "idle"
    /\ \/ dialogs' = dialogs /\ ~app_is_recording /\ app_is_recording'
       \/ /\ Len(dialogs') < Len(dialogs)
          /\ dialogs[Len(dialogs)].handler = "start_recording"

\* The step calls recorder.start().
CallsRecorderStart ==
    /\ EndsStartRecording
    /\ shown' = "Recording..."
    /\ \E call \in StartCalls : start(call[1], call[2], call[3])

\* The step calls recorder.stop(), from stop_recording or from _on_close.
CallsRecorderStop == pc = "idle" /\ pc' = "join_mic"

\* No toggle_recording is in progress: the main thread is in the main loop
\* and no handler waits in a dialog.
NoToggleInProgress == pc = "idle" /\ dialogs = <<>>

\* recorder.start() is never called while recorder.is_recording is true.
NeverStartsWhileRecording == [][CallsRecorderStart => ~is_recording]_vars

\* recorder.stop() is never called while recorder.is_recording is false.
NeverStopsWhileStopped == [][CallsRecorderStop => is_recording]_vars

\* The two flags agree whenever no toggle_recording is in progress.
FlagsAgreeBetweenHandlers ==
    NoToggleInProgress => (app_is_recording = is_recording)

\* C30: under every interleaving of clicks, hotkey presses and modal dialogs
\* the application never calls recorder.start() while recorder.is_recording
\* is true, never calls recorder.stop() while it is false, and
\* RecorderApp.is_recording equals recorder.is_recording whenever no toggle
\* handler is in progress.
C30_TogglesNeverOverlap ==
    [][/\ CallsRecorderStart => ~is_recording
       /\ CallsRecorderStop => is_recording
       /\ NoToggleInProgress' => (app_is_recording' = is_recording')]_vars

(* ------------------------------ chunk sizes ---------------------------- *)

\* The samples of a buffer, one chunk after the other.
SampleCount(data) == Len(Concatenate(data))

\* C31: every chunk of either buffer holds exactly CHUNK_SIZE mono samples,
\* whether its device was opened with one channel or with two, and a device
\* that reports more than two channels is opened with two; a buffer holds
\* CHUNK_SIZE times as many samples as it has chunks.
C31_ChunksHoldChunkSizeSamples ==
    /\ \A i \in 1..Len(mic_data) : Len(mic_data[i]) = CHUNK_SIZE
    /\ \A i \in 1..Len(desktop_data) : Len(desktop_data[i]) = CHUNK_SIZE
    /\ SampleCount(mic_data) = CHUNK_SIZE * Len(mic_data)
    /\ SampleCount(desktop_data) = CHUNK_SIZE * Len(desktop_data)
    /\ \A n \in 1..MaxChannels : \A v \in {0, FullScale} :
           /\ OpenedChannels(n) = (IF n = 1 THEN 1 ELSE 2)
           /\ Len(Mono(Block(v, OpenedChannels(n)), OpenedChannels(n)))
                  = CHUNK_SIZE

\* Both buffers hold a chunk: one of the one-channel microphone, one of the
\* two-channel loopback device.
C31_Witness ==
    /\ Len(mic_data) >= 1
    /\ Len(desktop_data) >= 1
    /\ mic_thread.device = MicDevice
    /\ desktop_thread.device = LoopbackDevice
    /\ SampleCount(mic_data) + SampleCount(desktop_data)
           = CHUNK_SIZE * (Len(mic_data) + Len(desktop_data))

(* ------------------------ the flag a worker first sees ----------------- *)

\* The step replaces the Thread by one that start() has just created.
Spawned(t, t2) == t2 # t /\ t2.pc = "open"

\* The step is the first statement of stop(), "self.is_recording = False".
ClearsFlag == pc = "idle" /\ pc' = "join_mic" /\ ~is_recording'

\* The worker the latest start() spawned for the buffer has appended nothing
\* yet: its next loop check is its first.
BeforeFirstChunk(t, name, buffer) ==
    IsAlive(t) /\ t.data_list = name /\ buffer = <<>>

\* Such a worker ends in this step.
EndsEmpty(t, t2, name, buffer) ==
    BeforeFirstChunk(t, name, buffer) /\ t2.pc = "done"

\* C32: start() sets is_recording before any worker it spawns can look at it,
\* and the flag is cleared by stop() only.  So a worker that finds the flag
\* false at its first loop check finds it so because stop() was called since
\* the start() that spawned it: a worker that has appended nothing ends only
\* by a device error or with the flag cleared by stop(), and one whose read
\* succeeded appends its chunk.
C32_WorkerFirstSeesFlagSet ==
    [][/\ Spawned(mic_thread, mic_thread') => is_recording'
       /\ Spawned(desktop_thread, desktop_thread') => is_recording'
       /\ (is_recording /\ ~is_recording') => ClearsFlag
       /\ EndsEmpty(mic_thread, mic_thread', "mic", mic_data) =>
              FailsAt(mic_thread, mic_thread') \/ ~is_recording
       /\ EndsEmpty(desktop_thread, desktop_thread', "desktop",
                    desktop_data) =>
              FailsAt(desktop_thread, desktop_thread') \/ ~is_recording
       /\ (BeforeFirstChunk(mic_thread, "mic", mic_data)
               /\ mic_thread.pc = "loop" /\ is_recording
               /\ mic_thread' # mic_thread) =>
              mic_thread'.pc = "read" \/ Spawned(mic_thread, mic_thread')
                  \/ mic_thread' = Rebound(mic_thread)
       /\ (BeforeFirstChunk(desktop_thread, "desktop", desktop_data)
               /\ desktop_thread.pc = "loop" /\ is_recording
               /\ desktop_thread' # desktop_thread) =>
              desktop_thread'.pc = "read"
                  \/ Spawned(desktop_thread, desktop_thread')
                  \/ desktop_thread' = Rebound(desktop_thread)
       /\ (BeforeFirstChunk(mic_thread, "mic", mic_data)
               /\ mic_thread.pc = "append"
               /\ mic_thread'.pc = "loop") => Len(mic_data') = 1
       /\ (BeforeFirstChunk(desktop_thread, "desktop", desktop_data)
               /\ desktop_thread.pc = "append"
               /\ desktop_thread'.pc = "loop") => Len(desktop_data') = 1]_vars

\* C32 happens: no stop() has been called since the start(), the microphone
\* worker has appended its first chunk and the desktop worker, past its first
\* loop check, is reading.
C32_Witness ==
    /\ is_recording
    /\ pc = "idle"
    /\ audio = <<>>
    /\ started.sources = {"mic", "desktop"}
    /\ Len(mic_data) = 1
    /\ mic_thread.pc = "loop"
    /\ mic_thread.data_list = "mic"
    /\ desktop_data = <<>>
    /\ desktop_thread.pc = "read"
    /\ detached = EmptyBag

(* ----------------------------- stop() twice ---------------------------- *)

\* What stop() reads from a buffer under the lock.
ReadOf(chunks) ==
    IF chunks # <<>> THEN Some(Concatenate(chunks)) ELSE Nothing

\* What a stop() that reads the buffers as they are now returns.
WouldReturn == MixDown(ReadOf(mic_data), ReadOf(desktop_data))

\* No capture thread is alive.
AllWorkersEnded == \A th \in Threads : ~IsAlive(th[2])

\* The buffers are as the stop() before read them.
BuffersAsRead ==
    /\ mic_audio = ReadOf(mic_data)
    /\ desktop_audio = ReadOf(desktop_data)

\* The step is a call of stop() that follows another with no start() between.
IsStopAgain == pc = "returned" /\ pc' = "join_mic"

\* A step of stop() or of its caller.
IsMainStep == pc' # pc

\* C33 as stated: once all workers have ended, a stop() that follows another
\* with no start() between returns what that one returned.
C33_StopAgainReturnsTheSame ==
    [][(IsStopAgain /\ AllWorkersEnded) => WouldReturn = audio]_vars

\* C33 as amended: stop() does not clear the buffers and leaves is_recording
\* false; with every worker ended and no start() the buffers stay as they
\* are; a stop() that follows another with no start() between, once all
\* workers have ended, returns what that one returned when the buffers are
\* still as that one read them (they are when the workers had ended before it
\* read); stop() on a session that was never started returns the empty
\* sequence; every returned sample is a finite number.
C33_StopAgainReturnsTheSameOnceQuiet ==
    [][/\ IsMainStep =>
              /\ UNCHANGED <<mic_data, desktop_data>> \/ IsStartStep
              /\ ~is_recording' \/ IsStartStep
       /\ (AllWorkersEnded /\ ~IsStartStep) =>
              UNCHANGED <<mic_data, desktop_data>>
       /\ (IsStopRead /\ AllWorkersEnded) => BuffersAsRead'
       /\ (IsStopAgain /\ AllWorkersEnded /\ BuffersAsRead) =>
              WouldReturn = audio
       /\ (IsStopRead /\ BuffersAsRead) =>
              UNCHANGED <<audio, mic_audio, desktop_audio>>
       /\ (IsStopRead /\ started.mode = "none") => audio' = <<>>
       /\ IsStopRead => \A i \in 1..Len(audio') : IsFinite(audio'[i])]_vars

\* C33 happens: every worker has ended, stop() has returned the mix of both
\* buffers, and a second stop() is about to read the same buffers.
C33_Witness ==
    /\ pc = "read"
    /\ ~is_recording
    /\ AllWorkersEnded
    /\ mic_data # <<>>
    /\ desktop_data # <<>>
    /\ BuffersAsRead
    /\ audio = WouldReturn

(* -------------------------- recording overlays ------------------------- *)

\* C34: at most one RecordingOverlay exists at any time; between two
\* handlers one exists when the application is recording and none when it is
\* not (the overlay start_recording created is destroyed by the next
\* stop_recording); the buffers are polled only by the one overlay that
\* exists, never after it was stopped.
C34_OneOverlayWhileRecording ==
    /\ overlays <= 1
    /\ (pc = "idle" /\ app_is_recording) => (overlay /\ overlays = 1)
    /\ (pc = "idle" /\ ~app_is_recording) => (~overlay /\ overlays = 0)
    /\ pc = "poll" => (overlay /\ overlays = 1)

(* ----------------------- retries of the analysis ----------------------- *)

\* The except clause saw a rate-limit error.
RateLimited == error_str.has_429 \/ error_str.has_RESOURCE_EXHAUSTED

\* transcribe_and_analyze has been called and has not returned.
InCall == ta_pc \in {"upload", "request", "sleep", "parse"}

\* The step is a call of generate_content.
IsRequest == requests' = requests + 1

RetryLimits ==
    /\ requests <= max_retries
    /\ ta_pc = "sleep" => (RateLimited /\ requests < max_retries)
    /\ (ta_pc = "request" /\ requests >= 1) => RateLimited
    /\ (ta_pc = "parse" \/ parsed) => response
    /\ returned_analysis # Nothing => parsed

RetrySteps ==
    IsRequest =>
        IF response' THEN ta_pc' = "parse"
        ELSE IF RateLimited' /\ requests' < max_retries THEN ta_pc' = "sleep"
        ELSE ta_pc' = "returned" /\ returned_analysis' = Nothing

\* C35: transcribe_and_analyze calls generate_content at most max_retries =
\* 3 times for a file; it calls it again only after a rate-limit error (429 or
\* RESOURCE_EXHAUSTED) and while attempts remain; after any other error, and
\* after a failed third attempt, it returns None at once; it parses a
\* response only when a request succeeded; and every call of it returns.
C35_AtMostThreeRequests ==
    /\ []RetryLimits
    /\ [][RetrySteps]_vars
    /\ (InCall ~> ta_pc = "returned")

\* C35 happens: two requests were rate-limited and the third succeeded, its
\* response is about to be parsed.
C35_Witness ==
    /\ ta_pc = "parse"
    /\ requests = max_retries
    /\ attempt = max_retries - 1
    /\ RateLimited
    /\ response
    /\ ~parsed

(* -------------------------------- --resume ----------------------------- *)

\* The step is main()'s "continue" for the file the loop is at.
IsSkipFile == main_pc = "loop" /\ main_pc' = "loop" /\ index' = index + 1

\* The step is main()'s call of transcribe_and_analyze for that file.
IsProcessFile == main_pc = "loop" /\ main_pc' = "call"

\* C36: a file that a run with JSON output has processed successfully has its
\* name as source_file in a JSON file of the output directory and is skipped
\* by a later run with --resume; a file that no run has processed
\* successfully is never skipped.
C36_ResumeSkipsExactlyTheProcessed ==
    /\ [](processed_ok \subseteq get_processed_files(output_dir))
    /\ [][/\ (IsProcessFile /\ resume) => Name(index) \notin processed_ok
          /\ IsSkipFile => Name(index) \in processed_ok]_vars

====
